---- MODULE Spec2Model ----
(***************************************************************************)
(* Model of the Essentia-JS audio analysis service: the server-side        *)
(* analyzer (audioAnalyzer module) and the HTTP handlers that call it.      *)
(*                                                                         *)
(* JavaScript numbers are modelled as exact rationals <<n, d>> extended     *)
(* with the IEEE special values the code can produce: NaN (0/0) and the     *)
(* two infinities (x/0); NaN and Infinity propagation is modelled.  The     *)
(* rounding of the 64-bit floats is modelled where a result depends on it:  *)
(* the loop index of downsampleAudio and the tempo stability and tempo      *)
(* influence measures are computed in IEEE-754 doubles.                     *)
(***************************************************************************)
EXTENDS Integers, Sequences, FiniteSets, TLC

VARIABLES
    \* POST /api/analyze-multiple
    srvPc,       \* "received" | "loop" | "responded"
    reqFiles,    \* req.files, the uploaded files in upload order
    fileIndex,   \* number of files the for-of loop has finished
    allResults,  \* the entries pushed so far
    response,    \* the response sent: status and JSON body
    \* analyzeAudioBuffer
    pipePc,      \* "start" | "downsample" | "bpm" | "danceability" | "mood"
                 \* | "return" | "returned" | "threw"
    audioBuffer, \* the AudioBuffer-like argument
    channelData, \* audioData, the value of getChannelData(0)
    downsampledData,
    bpmAnalysis,
    danceabilityAnalysis,
    moodAnalysis,
    pipeResult,  \* the value the promise resolves to, or the error it rejects with
    \* one call of a tempo estimator on its feature series
    tempoCall,   \* the method called and the series handed to it
    tempoOut,    \* the { bpm, confidence } it returns
    tempoTrace,  \* lengths of its intervals and bpms arrays when it returns
    \* combineBPMResultsAdvanced
    combinePc,   \* "call" | "done" | "labelled"
    combineIn,   \* the four estimates
    combineOut,  \* the combined { bpm, confidence }
    tempoCategory, \* the label analyzeBPMAdvanced attaches to the combined bpm
    \* the score computation of analyzeDanceabilityAdvanced
    dancePc,     \* "call" | "done" | "raised"
    danceIn,     \* the six sub-metrics
    danceOut,    \* the result for danceIn
    dancePrev,   \* the result for the sub-metrics before the last raise
    \* determineDetailedMood
    moodPc,      \* "call" | "done"
    moodIn,      \* its five arguments
    moodOut,     \* its return value
    \* POST /api/analyze
    singlePc,    \* "received" | "handler" | "responded"
    upload,      \* the "audio" part of the multipart body: <<>> or <<part>>
    reqFile,     \* req.file as multer leaves it: <<>> (undefined) or <<file>>
    singleSent,  \* number of responses sent
    singleResponse,
    \* the three estimators on one shared downsampled buffer, in any order
    estOriginal, \* the downsampled buffer as downsampleAudio returned it
    estBuffer,   \* the same array object, as the estimators have left it
    estDone,     \* the estimators that have run
    estResults,   \* their results
    \* Browser: performOptimizedAnalysis and its three wrappers
    fastPc,
    analysisWorker,
    fastData,
    fastResults,
    \* The two peak detectors on one signal
    peakData,
    peaksDone,
    peaksAdvanced,
    peaksFast,
    \* One framing loop: its arguments, its index and the frames pushed
    framePc,
    frameArgs,
    frameIndex,
    framesPushed,
    \* One feature extractor call: its arguments, which extractors ran, their values
    featCall,
    featDone,
    featOut,
    \* The downsampling loop: its arguments, the accumulator i and the samples pushed
    downPc,
    downArgs,
    downI,
    downPushed,
    \* the browser page: selection, analyze button, runs of analyzeAllAudio, worker
    audioFiles,
    filesChosen,
    isProcessing,
    analyzeBtnDisabled,
    hasWorker,
    runs,
    workerInbox,
    workerOutbox,
    onmessage,
    resultsContainer,
    shownFor,
    lastAlert

srvVars == <<srvPc, reqFiles, fileIndex, allResults, response>>
pipeVars == <<pipePc, audioBuffer, channelData, downsampledData, bpmAnalysis,
              danceabilityAnalysis, moodAnalysis, pipeResult>>
tempoVars == <<tempoCall, tempoOut, tempoTrace>>
combineVars == <<combinePc, combineIn, combineOut, tempoCategory>>
danceVars == <<dancePc, danceIn, danceOut, dancePrev>>
moodVars == <<moodPc, moodIn, moodOut>>

singleVars == <<singlePc, upload, reqFile, singleSent, singleResponse>>

estVars == <<estOriginal, estBuffer, estDone, estResults>>

fastVars == <<fastPc, analysisWorker, fastData, fastResults>>

peaksVars == <<peakData, peaksDone, peaksAdvanced, peaksFast>>

framingVars == <<framePc, frameArgs, frameIndex, framesPushed>>

featVars == <<featCall, featDone, featOut>>

downVars == <<downPc, downArgs, downI, downPushed>>

batchVars == <<audioFiles, filesChosen, isProcessing, analyzeBtnDisabled, hasWorker, runs, workerInbox, workerOutbox, onmessage, resultsContainer, shownFor, lastAlert>>

vars == <<srvVars, pipeVars, tempoVars, combineVars, danceVars, moodVars,
         singleVars,
         estVars,
         fastVars,
         peaksVars,
         framingVars,
         featVars,
         downVars,
         batchVars>>

\* What the actions of one group leave unchanged.
otherThanSrv == <<pipeVars, tempoVars, combineVars, danceVars, moodVars,
    singleVars,
    estVars,
    fastVars,
    peaksVars,
    framingVars,
    featVars,
    downVars,
    batchVars>>
otherThanPipe == <<srvVars, tempoVars, combineVars, danceVars, moodVars,
    singleVars,
    estVars,
    fastVars,
    peaksVars,
    framingVars,
    featVars,
    downVars,
    batchVars>>
otherThanTempo == <<srvVars, pipeVars, combineVars, danceVars, moodVars,
    singleVars,
    estVars,
    fastVars,
    peaksVars,
    framingVars,
    featVars,
    downVars,
    batchVars>>
otherThanCombine == <<srvVars, pipeVars, tempoVars, danceVars, moodVars,
    singleVars,
    estVars,
    fastVars,
    peaksVars,
    framingVars,
    featVars,
    downVars,
    batchVars>>
otherThanDance == <<srvVars, pipeVars, tempoVars, combineVars, moodVars,
    singleVars,
    estVars,
    fastVars,
    peaksVars,
    framingVars,
    featVars,
    downVars,
    batchVars>>
otherThanMood == <<srvVars, pipeVars, tempoVars, combineVars, danceVars,
    singleVars,
    estVars,
    fastVars,
    peaksVars,
    framingVars,
    featVars,
    downVars,
    batchVars>>
otherThanSingle ==
    <<srvVars, pipeVars, tempoVars, combineVars, danceVars, moodVars,
    estVars,
    fastVars,
    peaksVars,
    framingVars,
    featVars,
    downVars,
    batchVars>>
otherThanEst ==
    <<srvVars, pipeVars, tempoVars, combineVars, danceVars, moodVars, singleVars,
    fastVars,
    peaksVars,
    framingVars,
    featVars,
    downVars,
    batchVars>>
otherThanFast ==
    <<srvVars, pipeVars, tempoVars, combineVars, danceVars, moodVars, singleVars, estVars,
    peaksVars,
    framingVars,
    featVars,
    downVars,
    batchVars>>
otherThanPeaks ==
    <<srvVars, pipeVars, tempoVars, combineVars, danceVars, moodVars, singleVars, estVars, fastVars,
    framingVars,
    featVars,
    downVars,
    batchVars>>
otherThanFraming ==
    <<srvVars, pipeVars, tempoVars, combineVars, danceVars, moodVars, singleVars, estVars, fastVars, peaksVars,
    featVars,
    downVars,
    batchVars>>
otherThanFeat ==
    <<srvVars, pipeVars, tempoVars, combineVars, danceVars, moodVars, singleVars, estVars, fastVars, peaksVars, framingVars,
    downVars,
    batchVars>>
otherThanDown ==
    <<srvVars, pipeVars, tempoVars, combineVars, danceVars, moodVars, singleVars, estVars, fastVars, peaksVars, framingVars, featVars,
    batchVars>>
otherThanBatch ==
    <<srvVars, pipeVars, tempoVars, combineVars, danceVars, moodVars, singleVars, estVars, fastVars, peaksVars, framingVars, featVars, downVars>>

-----------------------------------------------------------------------------
(* JavaScript numbers *)

NaN == <<0, 0>>
Infinity == <<1, 0>>
NegInfinity == <<-1, 0>>

Abs(n) == IF n < 0 THEN -n ELSE n

Sign(n) == IF n > 0 THEN 1 ELSE IF n < 0 THEN -1 ELSE 0

RECURSIVE GCD(_, _)
GCD(a, b) == IF b = 0 THEN a ELSE GCD(b, a % b)

\* The number n/d in lowest terms; d = 0 gives NaN or an infinity as in IEEE.
Num(n, d) ==
    LET Reduced(g, s) == <<(s * n) \div g, (s * d) \div g>>
    IN IF d = 0 THEN <<Sign(n), 0>>
       ELSE Reduced(GCD(Abs(n), Abs(d)), IF d < 0 THEN -1 ELSE 1)

I(n) == <<n, 1>>

IsNaN(x) == x = NaN

IsFinite(x) == x[2] # 0

Add(a, b) ==
    LET Over(g) == Num(a[1] * (b[2] \div g) + b[1] * (a[2] \div g), (a[2] \div g) * b[2])
    IN IF a[2] = 0 /\ b[2] = 0 THEN (IF a = b THEN a ELSE NaN)
       ELSE IF a[2] = 0 THEN a
       ELSE IF b[2] = 0 THEN b
       ELSE Over(GCD(a[2], b[2]))

Neg(a) == <<-a[1], a[2]>>

Sub(a, b) == Add(a, Neg(b))

Mul(a, b) == Num(a[1] * b[1], a[2] * b[2])

Recip(a) == Num(a[2], a[1])

Div(a, b) ==
    IF IsNaN(a) \/ IsNaN(b) THEN NaN ELSE Mul(a, Recip(b))

\* a < b; false when either side is NaN, as every JavaScript comparison is.
Lt(a, b) ==
    /\ ~IsNaN(a)
    /\ ~IsNaN(b)
    /\ IF ~IsFinite(a) /\ ~IsFinite(b) THEN a[1] < b[1]
       ELSE LET Over(g) == a[1] * (b[2] \div g) < b[1] * (a[2] \div g)
            IN Over(GCD(a[2], b[2]))

Gt(a, b) == Lt(b, a)

Le(a, b) == ~IsNaN(a) /\ ~IsNaN(b) /\ (a = b \/ Lt(a, b))

Ge(a, b) == Le(b, a)

\* Math.min and Math.max of two numbers: NaN when either is NaN.
MathMin(a, b) == IF IsNaN(a) \/ IsNaN(b) THEN NaN ELSE IF Lt(b, a) THEN b ELSE a

MathMax(a, b) == IF IsNaN(a) \/ IsNaN(b) THEN NaN ELSE IF Lt(a, b) THEN b ELSE a

\* Math.round: the nearest integer, halves rounded up.
MathRound(a) == IF ~IsFinite(a) THEN a ELSE I((2 * a[1] + a[2]) \div (2 * a[2]))

MathFloor(a) == IF ~IsFinite(a) THEN a ELSE I(a[1] \div a[2])

\* x || dflt for a number x: 0 and NaN are falsy.
OrElse(x, dflt) == IF IsNaN(x) \/ x = I(0) THEN dflt ELSE x

\* arr[i] || dflt for a 0-based index i into an array of strings.
AtOr(arr, i, dflt) == IF i + 1 \in DOMAIN arr THEN arr[i + 1] ELSE dflt

-----------------------------------------------------------------------------
(* IEEE-754 double precision *)

RECURSIVE TwoTo(_)
TwoTo(n) == IF n = 0 THEN 1 ELSE 2 * TwoTo(n - 1)

\* The analyzer's numbers are IEEE-754 doubles.  Where a result depends on how
\* a quotient or a product is rounded, the model computes in doubles: a finite
\* double is sign * mant * 2^exp with mant a natural number of exactly 53
\* bits (or zero), and every operation rounds its exact result to the nearest
\* such number, ties to the even mantissa.  Exponent overflow and subnormal
\* numbers lie far outside the values the modelled calls produce and are not
\* modelled; the sign of zero is not kept.

\* Natural numbers of any size are little-endian sequences of limbs below
\* LimbBase with no leading zero limb; <<>> is zero.
LimbBase == TwoTo(15)

RECURSIVE NatTrim(_)
NatTrim(a) == IF a = <<>> THEN <<>> ELSE IF a[Len(a)] = 0 THEN NatTrim(SubSeq(a, 1, Len(a) - 1)) ELSE a

RECURSIVE NatOf(_)
NatOf(n) == IF n = 0 THEN <<>> ELSE <<n % LimbBase>> \o NatOf(n \div LimbBase)

LimbAt(a, i) == IF i <= Len(a) THEN a[i] ELSE 0

RECURSIVE NatAddFrom(_, _, _, _)
NatAddFrom(a, b, i, carry) ==
    IF i > Len(a) /\ i > Len(b)
    THEN NatOf(carry)
    ELSE <<(LimbAt(a, i) + LimbAt(b, i) + carry) % LimbBase>>
         \o NatAddFrom(a, b, i + 1, (LimbAt(a, i) + LimbAt(b, i) + carry) \div LimbBase)

NatAdd(a, b) == NatAddFrom(a, b, 1, 0)

\* a - b for a >= b
RECURSIVE NatSubFrom(_, _, _, _)
NatSubFrom(a, b, i, borrow) ==
    IF i > Len(a)
    THEN <<>>
    ELSE <<(LimbAt(a, i) - LimbAt(b, i) - borrow + LimbBase) % LimbBase>>
         \o NatSubFrom(a, b, i + 1, IF LimbAt(a, i) - LimbAt(b, i) - borrow < 0 THEN 1 ELSE 0)

NatSub(a, b) == NatTrim(NatSubFrom(a, b, 1, 0))

\* -1, 0 or 1 as a is below, equal to or above b
RECURSIVE NatCmpFrom(_, _, _)
NatCmpFrom(a, b, i) ==
    IF i = 0 THEN 0
    ELSE IF a[i] < b[i] THEN -1
    ELSE IF a[i] > b[i] THEN 1
    ELSE NatCmpFrom(a, b, i - 1)

NatCmp(a, b) ==
    IF Len(a) < Len(b) THEN -1
    ELSE IF Len(a) > Len(b) THEN 1
    ELSE NatCmpFrom(a, b, Len(a))

\* a * d + carry for one limb d
RECURSIVE NatMulLimbFrom(_, _, _, _)
NatMulLimbFrom(a, d, i, carry) ==
    IF i > Len(a)
    THEN NatOf(carry)
    ELSE <<(a[i] * d + carry) % LimbBase>>
         \o NatMulLimbFrom(a, d, i + 1, (a[i] * d + carry) \div LimbBase)

NatMulLimb(a, d) == NatTrim(NatMulLimbFrom(a, d, 1, 0))

RECURSIVE NatMulFrom(_, _, _)
NatMulFrom(a, b, i) ==
    IF i > Len(b)
    THEN <<>>
    ELSE NatAdd(NatMulLimb(a, b[i]), <<0>> \o NatMulFrom(a, b, i + 1))

NatMul(a, b) == NatTrim(NatMulFrom(a, b, 1))

\* a * 2^n
NatShl(a, n) ==
    IF a = <<>> THEN <<>>
    ELSE [i \in 1..(n \div 15) |-> 0] \o NatMulLimb(a, TwoTo(n % 15))

\* floor(a / d) for one limb d, from the highest limb down
RECURSIVE NatDivLimbFrom(_, _, _, _)
NatDivLimbFrom(a, d, i, rem) ==
    IF i = 0
    THEN <<>>
    ELSE NatDivLimbFrom(a, d, i - 1, (rem * LimbBase + a[i]) % d)
         \o <<(rem * LimbBase + a[i]) \div d>>

\* floor(a / 2^n)
NatShr(a, n) ==
    IF n \div 15 >= Len(a) THEN <<>>
    ELSE NatTrim(NatDivLimbFrom(SubSeq(a, n \div 15 + 1, Len(a)), TwoTo(n % 15),
                                Len(a) - n \div 15, 0))

\* the number of binary digits of a
NatBitLen(a) ==
    IF a = <<>> THEN 0
    ELSE 15 * (Len(a) - 1)
         + (CHOOSE n \in 1..15 : TwoTo(n - 1) <= a[Len(a)] /\ a[Len(a)] < TwoTo(n))

NatIsOdd(a) == a # <<>> /\ a[1] % 2 = 1

\* The quotient digit of rem / d below 128, for rem < 128 * d.
NatDigit(rem, d) ==
    CHOOSE g \in 0..127 : /\ NatCmp(NatMulLimb(d, g), rem) <= 0
                          /\ NatCmp(NatMulLimb(d, g + 1), rem) > 0

\* <<acc * 128^digits + floor(rem * 128^digits / d), the remainder>> for
\* rem < d: long division, seven binary places of the quotient per step.
RECURSIVE NatDivDigits(_, _, _, _)
NatDivDigits(rem, d, digits, acc) ==
    IF digits = 0
    THEN <<acc, rem>>
    ELSE CHOOSE out \in
             {NatDivDigits(NatSub(shifted, NatMulLimb(d, g)), d, digits - 1,
                           NatAdd(NatMulLimb(accValue, 128), NatOf(g)))
                 : shifted \in {NatMulLimb(rem, 128)}, accValue \in {acc},
                   g \in {NatDigit(NatMulLimb(rem, 128), d)}} : TRUE

DoubleNaN == [kind |-> "nan"]

DoubleInfinity(sign) == [kind |-> "inf", sign |-> sign]

DoubleZero == [kind |-> "num", sign |-> 0, mant |-> <<>>, exp |-> 0]

\* sign * mant * 2^exp with mant of 53 bits
DoubleOfParts(sign, mant, exp) == [kind |-> "num", sign |-> sign, mant |-> mant, exp |-> exp]

\* mant of more than 53 bits rounded to 53: the dropped digits (and sticky,
\* whether digits below them were non-zero) decide, a tie goes to the even
\* mantissa, and a carry out of the 53 bits moves the exponent.
RoundKept(sign, mant, exp, sticky, drop, kept) ==
    LET Carried(up) ==
            IF NatBitLen(up) > 53 THEN DoubleOfParts(sign, NatShr(up, 1), exp + drop + 1)
            ELSE DoubleOfParts(sign, up, exp + drop)
        Decide(cmp) ==
            IF cmp > 0 \/ (cmp = 0 /\ (sticky \/ NatIsOdd(kept)))
            THEN CHOOSE out \in {Carried(up) : up \in {NatAdd(kept, <<1>>)}} : TRUE
            ELSE DoubleOfParts(sign, kept, exp + drop)
    IN Decide(NatCmp(NatSub(mant, NatShl(kept, drop)), NatShl(<<1>>, drop - 1)))

\* the double nearest to sign * mant * 2^exp (mant a natural number, already
\* forced to a value by the caller)
RoundNat(sign, mant, exp, sticky) ==
    IF mant = <<>> THEN DoubleZero
    ELSE CHOOSE out \in
             {(IF bitLen <= 53
               THEN DoubleOfParts(sign, NatShl(mant, 53 - bitLen), exp - (53 - bitLen))
               ELSE (CHOOSE r \in {RoundKept(sign, mant, exp, sticky, bitLen - 53, kept)
                                      : kept \in {NatShr(mant, bitLen - 53)}} : TRUE))
                 : bitLen \in {NatBitLen(mant)}} : TRUE

DoubleOfInt(n) ==
    IF n < 0 THEN RoundNat(1, NatOf(-n), 0, FALSE) ELSE RoundNat(0, NatOf(n), 0, FALSE)

DoubleNeg(a) ==
    IF a.kind = "nan" THEN a
    ELSE IF a.kind = "inf" THEN DoubleInfinity(1 - a.sign)
    ELSE IF a.mant = <<>> THEN a
    ELSE [a EXCEPT !.sign = 1 - a.sign]

\* a + b of two finite doubles, neither zero: the mantissas are brought to the
\* smaller exponent and added or subtracted exactly, then rounded.
PlusFinite(a, b) ==
    LET Signed(sign, mant, exp) == RoundNat(sign, mant, exp, FALSE)
        Combine(ma, mb, exp) ==
            IF a.sign = b.sign THEN Signed(a.sign, NatAdd(ma, mb), exp)
            ELSE IF NatCmp(ma, mb) >= 0 THEN Signed(a.sign, NatSub(ma, mb), exp)
            ELSE Signed(b.sign, NatSub(mb, ma), exp)
        Aligned(exp) ==
            CHOOSE out \in {Combine(ma, mb, exp) : ma \in {NatShl(a.mant, a.exp - exp)},
                                                   mb \in {NatShl(b.mant, b.exp - exp)}} : TRUE
    IN Aligned(IF a.exp < b.exp THEN a.exp ELSE b.exp)

PlusValues(a, b) ==
    IF a.kind = "nan" \/ b.kind = "nan" THEN DoubleNaN
    ELSE IF a.kind = "inf" /\ b.kind = "inf" THEN (IF a.sign = b.sign THEN a ELSE DoubleNaN)
    ELSE IF a.kind = "inf" THEN a
    ELSE IF b.kind = "inf" THEN b
    ELSE IF a.mant = <<>> THEN b
    ELSE IF b.mant = <<>> THEN a
    ELSE PlusFinite(a, b)

\* x + y
DoublePlus(x, y) == CHOOSE out \in {PlusValues(a, b) : a \in {x}, b \in {y}} : TRUE

\* x - y
DoubleMinus(x, y) == CHOOSE out \in {PlusValues(a, DoubleNeg(b)) : a \in {x}, b \in {y}} : TRUE

TimesValues(a, b) ==
    LET SignOfBoth == IF a.sign = b.sign THEN 0 ELSE 1
    IN IF a.kind = "nan" \/ b.kind = "nan" THEN DoubleNaN
       ELSE IF a.kind = "inf" \/ b.kind = "inf"
       THEN (IF (a.kind = "num" /\ a.mant = <<>>) \/ (b.kind = "num" /\ b.mant = <<>>)
             THEN DoubleNaN ELSE DoubleInfinity(SignOfBoth))
       ELSE IF a.mant = <<>> \/ b.mant = <<>> THEN DoubleZero
       ELSE CHOOSE out \in {RoundNat(SignOfBoth, product, a.exp + b.exp, FALSE)
                               : product \in {NatMul(a.mant, b.mant)}} : TRUE

\* x * y
DoubleTimes(x, y) == CHOOSE out \in {TimesValues(a, b) : a \in {x}, b \in {y}} : TRUE

\* The quotient of two 53-bit mantissas to 56 binary places, the remainder
\* being the sticky digit.
OverValues(a, b) ==
    LET SignOfBoth == IF a.sign = b.sign THEN 0 ELSE 1
        Rounded(q) == RoundNat(SignOfBoth, q[1], a.exp - b.exp - 56, q[2] # <<>>)
        Quotient ==
            IF NatCmp(a.mant, b.mant) >= 0
            THEN NatDivDigits(NatSub(a.mant, b.mant), b.mant, 8, <<1>>)
            ELSE NatDivDigits(a.mant, b.mant, 8, <<>>)
    IN IF a.kind = "nan" \/ b.kind = "nan" THEN DoubleNaN
       ELSE IF a.kind = "inf" THEN (IF b.kind = "inf" THEN DoubleNaN ELSE DoubleInfinity(SignOfBoth))
       ELSE IF b.kind = "inf" THEN DoubleZero
       ELSE IF b.mant = <<>> THEN (IF a.mant = <<>> THEN DoubleNaN ELSE DoubleInfinity(SignOfBoth))
       ELSE IF a.mant = <<>> THEN DoubleZero
       ELSE CHOOSE out \in {Rounded(q) : q \in {Quotient}} : TRUE

\* x / y
DoubleOver(x, y) == CHOOSE out \in {OverValues(a, b) : a \in {x}, b \in {y}} : TRUE

\* Math.max(0, x): NaN stays NaN, a negative number gives 0.
DoubleMaxZero(x) ==
    CHOOSE out \in {(IF a.kind = "nan" THEN a
                     ELSE IF a.sign = 1 THEN DoubleZero
                     ELSE a) : a \in {x}} : TRUE

\* the integer a natural number stands for, below 2^31
RECURSIVE NatToInt(_)
NatToInt(a) == IF a = <<>> THEN 0 ELSE a[1] + LimbBase * NatToInt(Tail(a))

\* Math.floor(x) for a finite x >= 0
DoubleFloor(x) ==
    IF x.exp >= 0 THEN NatToInt(NatShl(x.mant, x.exp))
    ELSE NatToInt(NatShr(x.mant, -x.exp))

\* x < length for a finite x >= 0 and an integer length
DoubleBelow(x, length) == DoubleFloor(x) < length

-----------------------------------------------------------------------------
(* Arrays: a JavaScript array is a sequence; index i of the source is i + 1 *)

\* The indices 1..n of an array of n elements; empty for n <= 0.
Upto(n) == 1..(IF n < 0 THEN 0 ELSE n)

\* An array filled by a loop: the sequence with each element computed once.
Array(f) == f \o <<>>

\* arr.slice(from, to) for 0 <= from, clipped to the array as slice does.
Slice(arr, from, to) ==
    LET Clipped(hi) == IF from >= hi THEN <<>> ELSE SubSeq(arr, from + 1, hi)
    IN Clipped(IF to < Len(arr) THEN to ELSE Len(arr))

\* arr.reduce((sum, val) => sum + val, 0) over numbers.
RECURSIVE SumRange(_, _, _)
SumRange(arr, lo, hi) ==
    LET Halves(mid) == Add(SumRange(arr, lo, mid), SumRange(arr, mid + 1, hi))
    IN IF lo > hi THEN I(0)
       ELSE IF lo = hi THEN arr[lo]
       ELSE Halves((lo + hi) \div 2)

Sum(arr) == SumRange(arr, 1, Len(arr))

\* The same reduction over integer-valued samples, kept in integers.
RECURSIVE IntSumRange(_, _, _)
IntSumRange(arr, lo, hi) ==
    LET Halves(mid) == IntSumRange(arr, lo, mid) + IntSumRange(arr, mid + 1, hi)
    IN IF lo > hi THEN 0
       ELSE IF lo = hi THEN arr[lo]
       ELSE Halves((lo + hi) \div 2)

\* frame.reduce((sum, val) => sum + val * val, 0): samples are -1, 0 or 1.
SumOfSquares(frame) ==
    I(IntSumRange(Array([i \in DOMAIN frame |-> frame[i] * frame[i]]), 1, Len(frame)))

\* Math.min(...arr): Infinity for the empty array.
RECURSIVE MinOf(_)
MinOf(arr) ==
    IF arr = <<>> THEN Infinity ELSE MathMin(Head(arr), MinOf(Tail(arr)))

\* arr.sort((a, b) => a - b) on finite numbers: insertion into a sorted prefix.
RECURSIVE InsertSorted(_, _)
InsertSorted(x, sorted) ==
    IF sorted = <<>> THEN <<x>>
    ELSE IF Le(x, Head(sorted)) THEN <<x>> \o sorted
    ELSE <<Head(sorted)>> \o InsertSorted(x, Tail(sorted))

RECURSIVE SortAscending(_)
SortAscending(arr) ==
    IF arr = <<>> THEN <<>> ELSE InsertSorted(Head(arr), SortAscending(Tail(arr)))

\* The start offsets of a framing loop
\*   for (let i = first; i < length - frameSize; i += hopSize)
\* in visiting order.
FrameOffsets(first, length, frameSize, hopSize) ==
    LET last == length - frameSize - 1
        count == IF last < first THEN 0 ELSE ((last - first) \div hopSize) + 1
    IN Array([k \in 1..count |-> first + (k - 1) * hopSize])

\* Math.floor(x * sampleRate) for the frame durations the source uses,
\* x = ms / 1000.
MsToSamples(ms, sampleRate) == (ms * sampleRate) \div 1000

-----------------------------------------------------------------------------
(* Peak picking, smoothing and the conversion of peak spacings to tempo *)

\* x > k * Math.sqrt(v) for k >= 0 and a variance v >= 0, decided on the
\* squares so that no square root is taken.
ExceedsSqrt(x, k, v) == Gt(x, I(0)) /\ Gt(Mul(x, x), Mul(Mul(k, k), v))

Mean(data) == Div(Sum(data), I(Len(data)))

\* data.reduce((sum, val) => sum + Math.pow(val - mean, 2), 0) / data.length
Variance(data) ==
    LET Around(mean) ==
            Div(Sum(Array([i \in DOMAIN data |->
                              Mul(Sub(data[i], mean), Sub(data[i], mean))])),
                I(Len(data)))
    IN Around(Mean(data))

\* IsCandidatePeak with a threshold of mean + std * 6.
IsCandidatePeakAboveSixStd(data, i, mean, variance) ==
    /\ ExceedsSqrt(Sub(data[i + 1], mean), I(6), variance)
    /\ Gt(data[i + 1], data[i])
    /\ Gt(data[i + 1], data[i + 2])

\* data[i] > mean + std * 1.2, strictly above both neighbours.
IsCandidatePeak(data, i, mean, variance) ==
    /\ ExceedsSqrt(Sub(data[i + 1], mean), Num(12, 10), variance)
    /\ Gt(data[i + 1], data[i])
    /\ Gt(data[i + 1], data[i + 2])

\* data[i] - Math.max(leftMin, rightMin) over up to 5 samples on each side.
Prominence(data, i) ==
    LET leftMin == MinOf(Slice(data, IF i - 5 > 0 THEN i - 5 ELSE 0, i))
        rightMin == MinOf(Slice(data, i + 1, i + 6))
    IN Sub(data[i + 1], MathMax(leftMin, rightMin))

\* prominence > std * 0.5
IsProminent(data, i, variance) == ExceedsSqrt(Prominence(data, i), Num(1, 2), variance)

\* findPeaksAdvanced without its prominence test: every candidate is pushed.
findPeaksAdvancedNoProminence(data) ==
    LET Over(mean, variance) ==
            SelectSeq(Array([i \in Upto(Len(data) - 2) |-> i]),
                      LAMBDA i : IsCandidatePeak(data, i, mean, variance))
    IN Over(Mean(data), Variance(data))

\* The 0-based indices the loop pushes, in ascending order.
findPeaksAdvanced(data) ==
    LET Over(mean, variance) ==
            SelectSeq(Array([i \in Upto(Len(data) - 2) |-> i]),
                      LAMBDA i : /\ IsCandidatePeak(data, i, mean, variance)
                                 /\ IsProminent(data, i, variance))
    IN Over(Mean(data), Variance(data))

applyMedianFilter(data, windowSize) ==
    LET Middle(sorted) == sorted[(Len(sorted) \div 2) + 1]
        Window(i, halfWindow) ==
            Slice(data, IF i - halfWindow > 0 THEN i - halfWindow ELSE 0, i + halfWindow + 1)
    IN Array([k \in DOMAIN data |->
                 Middle(SortAscending(Window(k - 1, windowSize \div 2)))])

\* for (let i = 1; i < peaks.length; i++) intervals.push(peaks[i] - peaks[i - 1])
PeakIntervals(peaks) == Array([k \in Upto(Len(peaks) - 1) |-> peaks[k + 1] - peaks[k]])

\* 60 / (interval * hopSize / sampleRate)
IntervalToBpm(interval, hopSize, sampleRate) ==
    Div(I(60), Div(I(interval * hopSize), I(sampleRate)))

InTempoRange(bpm) == Ge(bpm, I(60)) /\ Le(bpm, I(200))

\* intervals.map(interval => 60 / timeInSeconds).filter(bpm => bpm >= 60 && bpm <= 200)
CandidateBpms(intervals, hopSize, sampleRate) ==
    SelectSeq(Array([k \in DOMAIN intervals |->
                        IntervalToBpm(intervals[k], hopSize, sampleRate)]),
              InTempoRange)

\* bpmHistogram: the count of each rounded candidate, as a function on the
\* rounded values that occur.
BpmHistogram(bpms) ==
    LET Counts(rounded) ==
            [b \in {rounded[k] : k \in DOMAIN rounded} |->
                Cardinality({k \in DOMAIN rounded : rounded[k] = b})]
    IN Counts(Array([k \in DOMAIN bpms |-> MathRound(bpms[k])[1]]))

\* The keys from the largest down.
RECURSIVE KeysDescending(_)
KeysDescending(keys) ==
    LET From(most) == <<most>> \o KeysDescending(keys \ {most})
    IN IF keys = {} THEN <<>>
       ELSE From(CHOOSE b \in keys : \A o \in keys : b >= o)

\* The keys of an object with integer keys, in the order Object.entries
\* visits them: ascending.
RECURSIVE KeysAscending(_)
KeysAscending(keys) ==
    LET From(least) == <<least>> \o KeysAscending(keys \ {least})
    IN IF keys = {} THEN <<>>
       ELSE From(CHOOSE b \in keys : \A o \in keys : b <= o)

\* for (const [bpm, count] of Object.entries(bpmHistogram))
\*     if (count > maxCount) { maxCount = count; detectedBpm = parseInt(bpm); }
RECURSIVE ScanHistogram(_, _, _)
ScanHistogram(hist, keys, best) ==
    IF keys = <<>> THEN best
    ELSE ScanHistogram(hist, Tail(keys),
                       IF hist[Head(keys)] > best.maxCount
                       THEN [detectedBpm |-> Head(keys), maxCount |-> hist[Head(keys)]]
                       ELSE best)

\* let detectedBpm = 120; let maxCount = 0; followed by the scan.
HistogramMode(hist) ==
    ScanHistogram(hist, KeysAscending(DOMAIN hist), [detectedBpm |-> 120, maxCount |-> 0])

-----------------------------------------------------------------------------
(* The four tempo estimators *)

\* The windowed frame x[i] * (0.54 - 0.46 cos(2 pi i / (N - 1))) and its
\* Fourier sums are irrational for most frames; the model computes them
\* where they are rational: on an all-zero frame of two or more samples,
\* where every product and sum is 0, and, for the bin k = 0 of the spectrum,
\* on a frame whose non-zero samples sit where the cosine of the window is
\* 0, 1/2 or 1 in size.  Any use of Unmodelled in arithmetic stops TLC with
\* an error, so no run relies on an invented value.
Unmodelled == "unmodelled"

IsSilent(frame) == \A i \in DOMAIN frame : frame[i] = 0

\* autocorr[lag] = sum of windowed[i] * windowed[i + lag], lag = 0..N-1
calculateAdvancedAutocorrelation(frame) ==
    IF IsSilent(frame) /\ Len(frame) >= 2
    THEN Array([lag \in 1..Len(frame) |-> I(0)])
    ELSE Unmodelled

\* The angle 2 pi i / (length - 1) is a multiple of a twelfth of a turn
\* whose cosine is rational.
HasRationalCosine(i, length) ==
    /\ length > 1
    /\ (12 * i) % (length - 1) = 0
    /\ (12 * i) \div (length - 1) \in {0, 2, 3, 4, 6, 8, 9, 10, 12}

\* windowValue = 0.54 - 0.46 * Math.cos(2 * Math.PI * i / (length - 1))
HammingAt(i, length) ==
    LET Cosine(twelfths) ==
            CASE twelfths \in {0, 12} -> I(1)
              [] twelfths \in {2, 10} -> Num(1, 2)
              [] twelfths \in {3, 9} -> I(0)
              [] twelfths \in {4, 8} -> Num(-1, 2)
              [] twelfths = 6 -> I(-1)
    IN IF HasRationalCosine(i, length)
       THEN Sub(Num(54, 100), Mul(Num(46, 100), Cosine((12 * i) \div (length - 1))))
       ELSE Unmodelled

\* windowed.push(frame[i] * windowValue); a zero sample stays zero.
applyHammingWindow(frame) ==
    Array([n \in DOMAIN frame |->
              IF frame[n] = 0 THEN I(0) ELSE Mul(I(frame[n]), HammingAt(n - 1, Len(frame)))])

HasRationalWindow(frame) ==
    \A n \in DOMAIN frame : frame[n] # 0 => HasRationalCosine(n - 1, Len(frame))

\* One magnitude per k with k < length / 2.  For k = 0 every angle is 0:
\* real is the sum of the windowed frame, imag is 0 and the magnitude is the
\* size of the sum.
calculateAdvancedSpectrum(frame) ==
    LET Size(real) == IF Lt(real, I(0)) THEN Neg(real) ELSE real
    IN IF IsSilent(frame) /\ Len(frame) >= 2
       THEN Array([k \in 1..((Len(frame) + 1) \div 2) |-> I(0)])
       ELSE IF Len(frame) >= 2 /\ HasRationalWindow(frame)
       THEN Array([k \in 1..((Len(frame) + 1) \div 2) |->
                      IF k = 1 THEN Size(Sum(applyHammingWindow(frame))) ELSE Unmodelled])
       ELSE Unmodelled

\* flux += diff > 0 ? diff : 0 over the bins of spectrum1
calculateAdvancedSpectralFlux(spectrum1, spectrum2) ==
    LET Rise(diff) == IF Gt(diff, I(0)) THEN diff ELSE I(0)
    IN Sum(Array([i \in DOMAIN spectrum1 |-> Rise(Sub(spectrum1[i], spectrum2[i]))]))

\* The frames of a framing loop, each audioData.slice(i, i + frameSize).
Frames(audioData, first, frameSize, hopSize) ==
    LET At(offsets) ==
            Array([k \in DOMAIN offsets |->
                      Slice(audioData, offsets[k], offsets[k] + frameSize)])
    IN At(FrameOffsets(first, Len(audioData), frameSize, hopSize))

\* Concatenation of the kept peak spacings of every autocorrelation curve:
\* interval > 0 && interval < sampleRate / 2.
RECURSIVE AutocorrPeakIntervals(_, _)
AutocorrPeakIntervals(autocorrelations, sampleRate) ==
    IF autocorrelations = <<>> THEN <<>>
    ELSE LET intervals == PeakIntervals(findPeaksAdvanced(Head(autocorrelations)))
             Kept(interval) == interval > 0 /\ 2 * interval < sampleRate
         IN SelectSeq(intervals, Kept)
            \o AutocorrPeakIntervals(Tail(autocorrelations), sampleRate)

\* detectBPMAdvancedAutocorr from the autocorrelation curves on: histogram
\* of the rounded candidates, its mode, and the mode's share as confidence.
AutocorrEstimate(autocorrelations, hopSize, sampleRate) ==
    LET Result(mode, count) ==
            [bpm |-> I(mode.detectedBpm),
             confidence |-> MathMin(I(1), Div(I(mode.maxCount), I(count)))]
        From(bpms) == Result(HistogramMode(BpmHistogram(bpms)), Len(bpms))
    IN From(CandidateBpms(AutocorrPeakIntervals(autocorrelations, sampleRate),
                          hopSize, sampleRate))

detectBPMAdvancedAutocorr(audioData, sampleRate) ==
    LET Curves(frames) ==
            Array([k \in DOMAIN frames |-> calculateAdvancedAutocorrelation(frames[k])])
    IN AutocorrEstimate(Curves(Frames(audioData, 0, 2048, 512)), 512, sampleRate)

\* detectBPMAdvancedSpectral from the flux series on: mean of the candidates.
SpectralEstimate(spectralFlux, hopSize, sampleRate) ==
    LET Result(bpms, intervalCount) ==
            [bpm |-> MathRound(IF Len(bpms) > 0 THEN Div(Sum(bpms), I(Len(bpms)))
                               ELSE I(120)),
             confidence |-> Div(I(Len(bpms)), I(intervalCount))]
        From(intervals) ==
            Result(CandidateBpms(intervals, hopSize, sampleRate), Len(intervals))
    IN From(PeakIntervals(findPeaksAdvanced(spectralFlux)))

\* One flux value per frame but the first, against the frame one hop back.
detectBPMAdvancedSpectral(audioData, sampleRate) ==
    LET Flux(spectra) ==
            Array([k \in Upto(Len(spectra) - 1) |->
                      calculateAdvancedSpectralFlux(spectra[k + 1], spectra[k])])
        Spectra(frames) ==
            Array([k \in DOMAIN frames |-> calculateAdvancedSpectrum(frames[k])])
    IN SpectralEstimate(Flux(Spectra(Frames(audioData, 0, 1024, 512))), 512, sampleRate)

\* detectBPMAdvancedEnergy from the onset energies on: median filter, peaks,
\* median of the sorted candidates (120 when there is none).
EnergyEstimate(onsets, hopSize, sampleRate) ==
    LET Result(sortedBpms, intervalCount) ==
            [bpm |-> MathRound(IF sortedBpms = <<>> THEN I(120)
                               ELSE OrElse(sortedBpms[(Len(sortedBpms) \div 2) + 1],
                                           I(120))),
             confidence |-> Div(I(Len(sortedBpms)), I(intervalCount))]
        From(intervals) ==
            Result(SortAscending(CandidateBpms(intervals, hopSize, sampleRate)),
                   Len(intervals))
    IN From(PeakIntervals(findPeaksAdvanced(applyMedianFilter(onsets, 5))))

detectBPMAdvancedEnergy(audioData, sampleRate) ==
    LET Onsets(frames) == Array([k \in DOMAIN frames |-> SumOfSquares(frames[k])])
        With(frameSize, hopSize) ==
            EnergyEstimate(Onsets(Frames(audioData, 0, frameSize, hopSize)),
                           hopSize, sampleRate)
    IN With(MsToSamples(25, sampleRate), MsToSamples(10, sampleRate))

\* detectBPMHistogram from the rhythm-band energies on: histogram and mode.
HistogramEstimate(tempos, hopSize, sampleRate) ==
    LET Result(mode, count) ==
            [bpm |-> I(mode.detectedBpm),
             confidence |-> Div(I(mode.maxCount), I(count))]
        From(bpms) == Result(HistogramMode(BpmHistogram(bpms)), Len(bpms))
    IN From(CandidateBpms(PeakIntervals(findPeaksAdvanced(tempos)), hopSize, sampleRate))

\* Mean magnitude of the lowest tenth of the bins of a frame's spectrum.
RhythmBandEnergy(frame) ==
    LET MeanOf(rhythmBand) == Div(Sum(rhythmBand), I(Len(rhythmBand)))
        Band(spectrum) == MeanOf(Slice(spectrum, 0, Len(spectrum) \div 10))
    IN Band(calculateAdvancedSpectrum(frame))

detectBPMHistogram(audioData, sampleRate) ==
    LET Tempos(frames) == Array([k \in DOMAIN frames |-> RhythmBandEnergy(frames[k])])
        With(frameSize, hopSize) ==
            HistogramEstimate(Tempos(Frames(audioData, 0, frameSize, hopSize)),
                              hopSize, sampleRate)
    IN With(MsToSamples(50, sampleRate), MsToSamples(25, sampleRate))

\* combineBPMResultsAdvanced without the confidence factor in the tempo: the
\* plain weighted average of the four tempi.
combineBPMResultsUnweighted(autocorr, spectral, energy, histogram) ==
    [bpm |-> MathRound(Add(Add(Add(Mul(autocorr.bpm, Num(4, 10)),
                                   Mul(spectral.bpm, Num(3, 10))),
                               Mul(energy.bpm, Num(2, 10))),
                           Mul(histogram.bpm, Num(1, 10)))),
     confidence |-> Add(Add(Add(Mul(autocorr.confidence, Num(4, 10)),
                                Mul(spectral.confidence, Num(3, 10))),
                            Mul(energy.confidence, Num(2, 10))),
                        Mul(histogram.confidence, Num(1, 10)))]

\* Confidence-weighted average of the four estimates with the fixed weights
\* 0.4, 0.3, 0.2, 0.1.
combineBPMResultsAdvanced(autocorr, spectral, energy, histogram) ==
    LET Combined(wAutocorr, wSpectral, wEnergy, wHistogram, totalWeight) ==
            [bpm |-> MathRound(
                 Div(Add(Add(Add(Mul(Mul(autocorr.bpm, wAutocorr), autocorr.confidence),
                                 Mul(Mul(spectral.bpm, wSpectral), spectral.confidence)),
                             Mul(Mul(energy.bpm, wEnergy), energy.confidence)),
                         Mul(Mul(histogram.bpm, wHistogram), histogram.confidence)),
                     totalWeight)),
             confidence |->
                 Div(Add(Add(Add(Mul(autocorr.confidence, wAutocorr),
                                 Mul(spectral.confidence, wSpectral)),
                             Mul(energy.confidence, wEnergy)),
                         Mul(histogram.confidence, wHistogram)),
                     totalWeight)]
        Weighted(wAutocorr, wSpectral, wEnergy, wHistogram) ==
            Combined(wAutocorr, wSpectral, wEnergy, wHistogram,
                     Add(Add(Add(wAutocorr, wSpectral), wEnergy), wHistogram))
    IN Weighted(Num(4, 10), Num(3, 10), Num(2, 10), Num(1, 10))

getTempoCategory(bpm) ==
    IF Lt(bpm, I(60)) THEN "Larghissimo"
    ELSE IF Lt(bpm, I(66)) THEN "Largo"
    ELSE IF Lt(bpm, I(76)) THEN "Adagio"
    ELSE IF Lt(bpm, I(108)) THEN "Andante"
    ELSE IF Lt(bpm, I(120)) THEN "Moderato"
    ELSE IF Lt(bpm, I(168)) THEN "Allegro"
    ELSE IF Lt(bpm, I(200)) THEN "Presto"
    ELSE "Prestissimo"

\* The result object of analyzeBPMAdvanced from the combination and the four
\* estimates.
BpmResult(combinedBPM, autocorrResult, spectralResult, energyResult, histogramResult) ==
    [bpm |-> combinedBPM.bpm,
     confidence |-> combinedBPM.confidence,
     tempoCategory |-> getTempoCategory(combinedBPM.bpm),
     methods |-> [autocorr |-> autocorrResult, onset |-> energyResult,
                  spectral |-> spectralResult, histogram |-> histogramResult]]

\* The combination step and the result object, from the four estimates.
CombinedBpmResult(autocorrResult, spectralResult, energyResult, histogramResult) ==
    BpmResult(combineBPMResultsAdvanced(autocorrResult, spectralResult, energyResult,
                                        histogramResult),
              autocorrResult, spectralResult, energyResult, histogramResult)

analyzeBPMAdvanced(audioData, sampleRate) ==
    CombinedBpmResult(detectBPMAdvancedAutocorr(audioData, sampleRate),
                      detectBPMAdvancedSpectral(audioData, sampleRate),
                      detectBPMAdvancedEnergy(audioData, sampleRate),
                      detectBPMHistogram(audioData, sampleRate))

-----------------------------------------------------------------------------
(* Feature extractors of the danceability and mood estimators *)

\* Math.sqrt of a non-negative rational, where the root is rational.
MathSqrt(x) ==
    IF ~IsFinite(x) THEN x
    ELSE IF \E r \in 0..x[1] : r * r = x[1] /\ \E q \in 1..x[2] : q * q = x[2]
         THEN Num(CHOOSE r \in 0..x[1] : r * r = x[1], CHOOSE q \in 1..x[2] : q * q = x[2])
         ELSE Unmodelled

\* frame.reduce((sum, sample) => sum + sample * sample, 0) / frame.length
MeanSquare(frame) == Div(SumOfSquares(frame), I(Len(frame)))

analyzeRhythmFrequencyAdvanced(audioData, sampleRate) ==
    LET Average(rhythmScores) == Div(Sum(rhythmScores), I(Len(rhythmScores)))
        Scores(frames) == Array([k \in DOMAIN frames |-> RhythmBandEnergy(frames[k])])
        With(frameSize) == Average(Scores(Frames(audioData, 0, frameSize, frameSize)))
    IN With(MsToSamples(25, sampleRate))

calculateRhythmStrengthAdvanced(audioData, sampleRate) ==
    LET Strength(mean, variance, rhythmFrequency) ==
            MathMin(I(1), Div(Add(Div(variance, Mul(mean, mean)), rhythmFrequency), I(2)))
        Over(energies) ==
            Strength(Mean(energies), Variance(energies),
                     analyzeRhythmFrequencyAdvanced(audioData, sampleRate))
        Energies(frames, frameSize) ==
            Array([k \in DOMAIN frames |->
                      MathSqrt(Div(SumOfSquares(frames[k]), I(frameSize)))])
        With(frameSize) ==
            Over(Energies(Frames(audioData, 0, frameSize, frameSize), frameSize))
    IN With(MsToSamples(25, sampleRate))

\* The indices i = step, 2 step, ... < length the loop compares with i - step.
ZcrIndices(length, step) == {i \in 1..(length - 1) : i % step = 0}

calculateZeroCrossingRateAdvanced(audioData) ==
    LET Rate(zeroCrossings, step) ==
            Div(I(zeroCrossings), Div(I(Len(audioData)), I(step)))
        Crossings(step) ==
            Cardinality({i \in ZcrIndices(Len(audioData), step) :
                            \/ audioData[i + 1] >= 0 /\ audioData[i - step + 1] < 0
                            \/ audioData[i + 1] < 0 /\ audioData[i - step + 1] >= 0})
        With(step) == Rate(Crossings(step), step)
    IN With(IF Len(audioData) \div 5000 > 1 THEN Len(audioData) \div 5000 ELSE 1)

\* weightedSum / sum of one 1024-sample frame, over its first 512 samples,
\* with magnitude = Math.abs(frame[j]) and frequency = j * sampleRate / 1024.
FrameCentroid(frame, frameSize, sampleRate) ==
    LET Measured(weightedSum, sum) == [sum |-> sum, centroid |-> Div(weightedSum, I(sum))]
        Over(half) ==
            Measured(Num(sampleRate
                         * IntSumRange(Array([j \in 1..half |-> (j - 1) * Abs(frame[j])]),
                                       1, half),
                         frameSize),
                     IntSumRange(Array([j \in 1..half |-> Abs(frame[j])]), 1, half))
    IN Over(frameSize \div 2)

calculateSpectralCentroidAdvanced(audioData, sampleRate) ==
    LET Average(counted) ==
            IF Len(counted) > 0
            THEN Div(Sum(Array([k \in DOMAIN counted |-> counted[k].centroid])),
                     I(Len(counted)))
            ELSE I(0)
        PerFrame(frames) ==
            Array([k \in DOMAIN frames |-> FrameCentroid(frames[k], 1024, sampleRate)])
    IN Average(SelectSeq(PerFrame(Frames(audioData, 0, 1024, 1024)),
                         LAMBDA f : f.sum > 0))

\* A rolloff that leaves silent frames out of the average, as the spectral
\* centroid does.
calculateSpectralRolloffOfLoudFrames(audioData, sampleRate) ==
    LET Average(loud, rolloff) ==
            IF Len(loud) > 0
            THEN Div(Sum(Array([k \in DOMAIN loud |-> rolloff])), I(Len(loud)))
            ELSE I(0)
        With(frameSize) ==
            Average(SelectSeq(Frames(audioData, 0, frameSize, frameSize),
                              LAMBDA f : ~IsSilent(f)),
                    Num((((frameSize \div 2) * 85) \div 100) * sampleRate, frameSize))
    IN With(1024)

\* Every frame contributes rolloffIndex * sampleRate / frameSize with
\* rolloffIndex = Math.floor(magnitudes.length * 0.85), magnitudes being the
\* sorted first 512 absolute samples of the frame.
calculateSpectralRolloffAdvanced(audioData, sampleRate) ==
    LET Average(frameCount, rolloff) ==
            IF frameCount > 0
            THEN Div(Sum(Array([k \in 1..frameCount |-> rolloff])), I(frameCount))
            ELSE I(0)
        With(frameSize) ==
            Average(Len(FrameOffsets(0, Len(audioData), frameSize, frameSize)),
                    Num((((frameSize \div 2) * 85) \div 100) * sampleRate, frameSize))
    IN With(1024)

calculateBeatConsistencyAdvanced(audioData, sampleRate) ==
    LET Consistency(zeroCrossingRate, spectralCentroid, spectralRolloff) ==
            Add(Add(Mul(Sub(I(1), zeroCrossingRate), Num(4, 10)),
                    Mul(Div(spectralCentroid, I(5000)), Num(3, 10))),
                Mul(Div(spectralRolloff, I(8000)), Num(3, 10)))
    IN MathMin(I(1), MathMax(I(0),
           Consistency(calculateZeroCrossingRateAdvanced(audioData),
                       calculateSpectralCentroidAdvanced(audioData, sampleRate),
                       calculateSpectralRolloffAdvanced(audioData, sampleRate))))

\* Mean magnitude of spectrum.slice(from, to).
BandMean(spectrum, from, to) ==
    LET MeanOf(band) == Div(Sum(band), I(Len(band))) IN MeanOf(Slice(spectrum, from, to))

calculateEnergyDistributionAdvanced(audioData, sampleRate) ==
    LET Magnitude(difference) ==
            IF Lt(difference, I(0)) THEN Neg(difference) ELSE difference
        Balance(lowEnergy, midEnergy, highEnergy) ==
            Sub(I(1), Div(Magnitude(Sub(lowEnergy, highEnergy)),
                          Add(Add(lowEnergy, midEnergy), highEnergy)))
        Bands(spectra) ==
            Balance(Sum(Array([k \in DOMAIN spectra |->
                                  BandMean(spectra[k], 0, Len(spectra[k]) \div 3)])),
                    Sum(Array([k \in DOMAIN spectra |->
                                  BandMean(spectra[k], Len(spectra[k]) \div 3,
                                           (2 * Len(spectra[k])) \div 3)])),
                    Sum(Array([k \in DOMAIN spectra |->
                                  BandMean(spectra[k], (2 * Len(spectra[k])) \div 3,
                                           Len(spectra[k]))])))
        Spectra(frames) ==
            Array([k \in DOMAIN frames |-> calculateAdvancedSpectrum(frames[k])])
        With(frameSize) == Bands(Spectra(Frames(audioData, 0, frameSize, frameSize)))
    IN MathMax(I(0), MathMin(I(1), With(MsToSamples(25, sampleRate))))

\* energy * 100, the per-frame proxy tempo
estimateTempoFromFrameAdvanced(frame, sampleRate) == Mul(MeanSquare(frame), I(100))

\* Math.max(0, 1 - variance / (mean * mean)) of a series.
StabilityOf(tempos) ==
    LET Stability(mean, variance) ==
            MathMax(I(0), Sub(I(1), Div(variance, Mul(mean, mean))))
    IN Stability(Mean(tempos), Variance(tempos))

calculateTempoStabilityAdvanced(audioData, sampleRate) ==
    LET Tempos(frames) ==
            Array([k \in DOMAIN frames |->
                      estimateTempoFromFrameAdvanced(frames[k], sampleRate)])
        With(frameSize) == StabilityOf(Tempos(Frames(audioData, 0, frameSize, frameSize)))
    IN With(MsToSamples(100, sampleRate))

calculateSyncopationAdvanced(audioData, sampleRate) ==
    LET Energy(from, frameSize) ==
            Div(SumOfSquares(Slice(audioData, from, from + frameSize)), I(frameSize))
        Jumps(offsets, frameSize) ==
            Cardinality({k \in DOMAIN offsets :
                            Gt(Energy(offsets[k], frameSize),
                               Mul(Energy(offsets[k] - frameSize, frameSize),
                                   Num(15, 10)))})
        Score(offsets, frameSize) ==
            MathMin(I(1), Div(Num(Jumps(offsets, frameSize), 10), I(Len(offsets))))
        With(frameSize) ==
            Score(FrameOffsets(frameSize, Len(audioData), frameSize, frameSize), frameSize)
    IN With(MsToSamples(25, sampleRate))

\* Math.min(1, energy * 10), the per-frame rhythm pattern
analyzeRhythmPatternAdvanced(frame) == MathMin(I(1), Mul(MeanSquare(frame), I(10)))

calculateGrooveFactorAdvanced(audioData, sampleRate) ==
    LET Average(grooveScores) == Div(Sum(grooveScores), I(Len(grooveScores)))
        Scores(frames) ==
            Array([k \in DOMAIN frames |-> analyzeRhythmPatternAdvanced(frames[k])])
        With(frameSize) == Average(Scores(Frames(audioData, 0, frameSize, frameSize)))
    IN With(MsToSamples(25, sampleRate))

calculateTempoInfluenceAdvanced(audioData, sampleRate) ==
    LET Energies(frames, frameSize) ==
            Array([k \in DOMAIN frames |-> Div(SumOfSquares(frames[k]), I(frameSize))])
        With(frameSize) ==
            StabilityOf(Energies(Frames(audioData, 0, frameSize, frameSize), frameSize))
    IN With(MsToSamples(100, sampleRate))

\* for (let i = 0; i < audioData.length; i += ratio) push(audioData[Math.floor(i)])
\* With a whole ratio the k-th pass has i = k * ratio exactly, so the loop
\* makes ceil(length / ratio) passes; the callers modelled with this operator
\* use whole ratios.  The loop in rounded arithmetic is DownPush.
downsampleAudio(audioData, originalSampleRate, targetSampleRate) ==
    LET count == (Len(audioData) * targetSampleRate + originalSampleRate - 1)
                 \div originalSampleRate
    IN Array([k \in 1..count |->
                 audioData[(((k - 1) * originalSampleRate) \div targetSampleRate) + 1]])

\* getDanceabilityCategory with >= for >: a score at a threshold gets the
\* higher category.
getDanceabilityCategoryInclusive(score) ==
    IF Ge(score, Num(8, 10)) THEN "Very Danceable"
    ELSE IF Ge(score, Num(6, 10)) THEN "Danceable"
    ELSE IF Ge(score, Num(4, 10)) THEN "Moderately Danceable"
    ELSE IF Ge(score, Num(2, 10)) THEN "Slightly Danceable"
    ELSE "Not Danceable"

getDanceabilityCategory(score) ==
    IF Gt(score, Num(8, 10)) THEN "Very Danceable"
    ELSE IF Gt(score, Num(6, 10)) THEN "Danceable"
    ELSE IF Gt(score, Num(4, 10)) THEN "Moderately Danceable"
    ELSE IF Gt(score, Num(2, 10)) THEN "Slightly Danceable"
    ELSE "Not Danceable"

calculateDanceabilityConfidence(rhythm, beat, energy, tempo) ==
    Div(Add(Add(Add(rhythm, beat), energy), tempo), I(4))

\* The type tags: the category by the function's own if-chain first, then the
\* two sub-metric tags.
determineDanceabilityType(score, rhythmStrength, beatConsistency) ==
    (IF Gt(score, Num(8, 10)) THEN <<"Very Danceable">>
     ELSE IF Gt(score, Num(6, 10)) THEN <<"Danceable">>
     ELSE IF Gt(score, Num(4, 10)) THEN <<"Moderately Danceable">>
     ELSE IF Gt(score, Num(2, 10)) THEN <<"Slightly Danceable">>
     ELSE <<"Not Danceable">>)
    \o (IF Gt(rhythmStrength, Num(7, 10)) THEN <<"Strong Rhythm">> ELSE <<>>)
    \o (IF Gt(beatConsistency, Num(7, 10)) THEN <<"Consistent Beat">> ELSE <<>>)

\* DanceabilityScore with the beat consistency term subtracted.
DanceabilityScoreBeatInverted(rhythmStrength, beatConsistency, energyDistribution, tempoStability, syncopation, grooveFactor) ==
    Add(Add(Add(Add(Sub(Mul(rhythmStrength, Num(25, 100)),
                        Mul(beatConsistency, Num(25, 100))),
                    Mul(energyDistribution, Num(20, 100))),
                Mul(tempoStability, Num(15, 100))),
            Mul(syncopation, Num(10, 100))),
        Mul(grooveFactor, Num(5, 100)))

\* rhythmStrength * 0.25 + beatConsistency * 0.25 + energyDistribution * 0.20
\* + tempoStability * 0.15 + syncopation * 0.10 + grooveFactor * 0.05
DanceabilityScore(rhythmStrength, beatConsistency, energyDistribution, tempoStability, syncopation, grooveFactor) ==
    Add(Add(Add(Add(Add(Mul(rhythmStrength, Num(25, 100)),
                        Mul(beatConsistency, Num(25, 100))),
                    Mul(energyDistribution, Num(20, 100))),
                Mul(tempoStability, Num(15, 100))),
            Mul(syncopation, Num(10, 100))),
        Mul(grooveFactor, Num(5, 100)))

\* The result object of analyzeDanceabilityAdvanced from the six sub-metrics.
DanceabilityResult(rhythmStrength, beatConsistency, energyDistribution, tempoStability, syncopation, grooveFactor) ==
    LET Result(danceabilityScore) ==
            [score |-> MathMin(I(100), MathMax(I(0), Mul(danceabilityScore, I(100)))),
             rhythmStrength |-> rhythmStrength,
             beatConsistency |-> beatConsistency,
             energyDistribution |-> energyDistribution,
             tempoStability |-> tempoStability,
             syncopation |-> syncopation,
             grooveFactor |-> grooveFactor,
             category |-> getDanceabilityCategory(danceabilityScore),
             type |-> determineDanceabilityType(danceabilityScore, rhythmStrength,
                                                beatConsistency),
             confidence |-> calculateDanceabilityConfidence(
                                rhythmStrength, beatConsistency, energyDistribution,
                                tempoStability)]
    IN Result(DanceabilityScore(rhythmStrength, beatConsistency, energyDistribution,
                                tempoStability, syncopation, grooveFactor))

analyzeDanceabilityAdvanced(audioData, sampleRate) ==
    DanceabilityResult(calculateRhythmStrengthAdvanced(audioData, sampleRate),
                       calculateBeatConsistencyAdvanced(audioData, sampleRate),
                       calculateEnergyDistributionAdvanced(audioData, sampleRate),
                       calculateTempoStabilityAdvanced(audioData, sampleRate),
                       calculateSyncopationAdvanced(audioData, sampleRate),
                       calculateGrooveFactorAdvanced(audioData, sampleRate))

-----------------------------------------------------------------------------
(* determineDetailedMood *)

\* High / Medium / Low tag of the three continuous categories.
LevelOf(score) ==
    IF Gt(score, Num(7, 10)) THEN "High"
    ELSE IF Gt(score, Num(4, 10)) THEN "Medium"
    ELSE "Low"

\* HappyTriggered with >= for >: a trigger at the thresholds themselves.
HappyTriggeredInclusive(spectralCentroid, energyDistribution) ==
    Ge(spectralCentroid, I(1500)) /\ Ge(energyDistribution, Num(6, 10))

HappyTriggered(spectralCentroid, energyDistribution) ==
    Gt(spectralCentroid, I(1500)) /\ Gt(energyDistribution, Num(6, 10))

SadTriggered(spectralCentroid, energyDistribution) ==
    Lt(spectralCentroid, I(800)) /\ Lt(energyDistribution, Num(4, 10))

\* RelaxedTriggered without its test of the zero-crossing rate.
RelaxedTriggeredByEnergyAlone(zeroCrossingRate, energyDistribution) ==
    Lt(energyDistribution, Num(5, 10))

RelaxedTriggered(zeroCrossingRate, energyDistribution) ==
    Lt(zeroCrossingRate, Num(5, 100)) /\ Lt(energyDistribution, Num(5, 10))

AggressiveTriggered(zeroCrossingRate, spectralRolloff) ==
    Gt(zeroCrossingRate, Num(1, 10)) /\ Gt(spectralRolloff, I(3000))

HappyLevel(spectralCentroid, energyDistribution) ==
    IF HappyTriggered(spectralCentroid, energyDistribution) THEN "High"
    ELSE IF Gt(spectralCentroid, I(1200)) THEN "Medium"
    ELSE "Low"

\* SadLevel by the centroid alone: High whether or not Sad triggered.
SadLevelByCentroid(spectralCentroid, energyDistribution) ==
    IF Lt(spectralCentroid, I(800)) THEN "High"
    ELSE IF Lt(spectralCentroid, I(1000)) THEN "Medium"
    ELSE "Low"

SadLevel(spectralCentroid, energyDistribution) ==
    IF SadTriggered(spectralCentroid, energyDistribution) THEN "High"
    ELSE IF Lt(spectralCentroid, I(1000)) THEN "Medium"
    ELSE "Low"

RelaxedLevel(zeroCrossingRate, energyDistribution) ==
    IF RelaxedTriggered(zeroCrossingRate, energyDistribution) THEN "High"
    ELSE IF Lt(zeroCrossingRate, Num(8, 100)) THEN "Medium"
    ELSE "Low"

AggressiveLevel(zeroCrossingRate, spectralRolloff) ==
    IF AggressiveTriggered(zeroCrossingRate, spectralRolloff) THEN "High"
    ELSE IF Gt(zeroCrossingRate, Num(8, 100)) THEN "Medium"
    ELSE "Low"

\* One boolean category's contribution to the moods / songTypes / emojis /
\* explanation arrays: pushed only when the category triggered.
Pushed(triggered, item) == IF triggered THEN <<item>> ELSE <<>>

\* Bump without its condition: the increment of every category is added.
BumpUnconditional(confidence, triggered, inc) == Add(confidence, inc)

\* confidence += inc when the category triggered.
Bump(confidence, triggered, inc) == IF triggered THEN Add(confidence, inc) ELSE confidence

\* The labels carry an emoji prefix in the source; the model keeps the word,
\* and names each emoji.  The description of a detailedAnalysis entry is a
\* fixed text per category and score and is left out.
determineDetailedMood(spectralCentroid, zeroCrossingRate, energyDistribution, spectralRolloff, tempoInfluence) ==
    LET Result(moods, songTypes, emojis, explanation, confidence, detailedAnalysis) ==
            [primary |-> AtOr(moods, 0, "Neutral"),
             secondary |-> AtOr(moods, 1, "Balanced"),
             songType |-> AtOr(songTypes, 0, "Mixed"),
             emoji |-> AtOr(emojis, 0, "musical note"),
             confidence |-> MathMin(I(1), confidence),
             explanation |-> explanation,
             detailedAnalysis |-> detailedAnalysis]
        Scored(danceabilityScore, engagementScore, approachabilityScore) ==
            << [type |-> "Danceability", score |-> LevelOf(danceabilityScore)],
               [type |-> "Happy",
                score |-> HappyLevel(spectralCentroid, energyDistribution)],
               [type |-> "Sad",
                score |-> SadLevel(spectralCentroid, energyDistribution)],
               [type |-> "Relaxed",
                score |-> RelaxedLevel(zeroCrossingRate, energyDistribution)],
               [type |-> "Aggressiveness",
                score |-> AggressiveLevel(zeroCrossingRate, spectralRolloff)],
               [type |-> "Engagement", score |-> LevelOf(engagementScore)],
               [type |-> "Approachability", score |-> LevelOf(approachabilityScore)] >>
        Decided(happy, sad, relaxed, aggressive) ==
            Result(Pushed(happy, "Happy") \o Pushed(sad, "Sad")
                       \o Pushed(relaxed, "Relaxed") \o Pushed(aggressive, "Aggressive"),
                   Pushed(happy, "Upbeat") \o Pushed(sad, "Melancholic")
                       \o Pushed(relaxed, "Chill") \o Pushed(aggressive, "Intense"),
                   Pushed(happy, "grinning face") \o Pushed(sad, "crying face")
                       \o Pushed(relaxed, "relieved face")
                       \o Pushed(aggressive, "raised fist"),
                   Pushed(happy, "High brightness and energy create positive mood")
                       \o Pushed(sad, "Low brightness and energy indicate somber mood")
                       \o Pushed(relaxed, "Low complexity and energy create calm feeling")
                       \o Pushed(aggressive,
                                 "High complexity and high frequencies suggest aggression"),
                   Bump(Bump(Bump(Bump(I(0), happy, Num(25, 100)), sad, Num(25, 100)),
                             relaxed, Num(2, 10)), aggressive, Num(2, 10)),
                   Scored(Div(Add(energyDistribution, tempoInfluence), I(2)),
                          Div(Add(Add(Div(spectralCentroid, I(2000)), energyDistribution),
                                  tempoInfluence), I(3)),
                          Div(Add(Sub(I(1), zeroCrossingRate), energyDistribution), I(2))))
    IN Decided(HappyTriggered(spectralCentroid, energyDistribution),
               SadTriggered(spectralCentroid, energyDistribution),
               RelaxedTriggered(zeroCrossingRate, energyDistribution),
               AggressiveTriggered(zeroCrossingRate, spectralRolloff))

\* The result object of analyzeMoodAdvanced from determineDetailedMood's.
MoodResult(mood) ==
    [primaryMood |-> mood.primary,
     secondaryMood |-> mood.secondary,
     songType |-> mood.songType,
     emoji |-> mood.emoji,
     confidence |-> mood.confidence,
     moodExplanation |-> mood.explanation,
     detailedAnalysis |-> mood.detailedAnalysis]

analyzeMoodAdvanced(audioData, sampleRate) ==
    MoodResult(determineDetailedMood(
                   calculateSpectralCentroidAdvanced(audioData, sampleRate),
                   calculateZeroCrossingRateAdvanced(audioData),
                   calculateEnergyDistributionAdvanced(audioData, sampleRate),
                   calculateSpectralRolloffAdvanced(audioData, sampleRate),
                   calculateTempoInfluenceAdvanced(audioData, sampleRate)))

-----------------------------------------------------------------------------
(* Browser script: the analysis worker and the wrappers' own estimators *)

\* Math.max(...arr): -Infinity for an empty array.
MaxOf(arr) ==
    IF arr = <<>> THEN NegInfinity
    ELSE IF \E k \in DOMAIN arr : IsNaN(arr[k]) THEN NaN
    ELSE CHOOSE v \in {arr[k] : k \in DOMAIN arr} : \A k \in DOMAIN arr : Le(arr[k], v)

\* data[i] > Math.max(...data) * 0.3 and strictly above both neighbours,
\* for 1 <= i < length - 1: the 0-based indices pushed, ascending.
findPeaksFast(data) ==
    LET Over(threshold) ==
            SelectSeq(Array([i \in Upto(Len(data) - 2) |-> i]),
                      LAMBDA i : /\ Gt(data[i + 1], threshold)
                                 /\ Gt(data[i + 1], data[i])
                                 /\ Gt(data[i + 1], data[i + 2]))
    IN Over(Mul(MaxOf(data), Num(3, 10)))

\* The worker's copy of the same loop.
findPeaksAutocorrWorker(autocorr) == findPeaksFast(autocorr)

\* autocorr[lag] += frame[i] * frame[i + lag], without a window.
calculateAutocorrelationWorker(frame) ==
    Array([lag \in 1..Len(frame) |->
              I(IntSumRange(Array([i \in 1..(Len(frame) - lag + 1) |->
                                      frame[i] * frame[i + lag - 1]]),
                            1, Len(frame) - lag + 1))])

\* Concatenation of the peak spacings of every curve, kept when > 0.
RECURSIVE WorkerPeakIntervals(_)
WorkerPeakIntervals(autocorrelations) ==
    IF autocorrelations = <<>> THEN <<>>
    ELSE SelectSeq(PeakIntervals(findPeaksAutocorrWorker(Head(autocorrelations))),
                   LAMBDA interval : interval > 0)
         \o WorkerPeakIntervals(Tail(autocorrelations))

\* analyzeBPMWorker from the autocorrelation curves on.  Every interval
\* becomes a candidate; the histogram counts the candidates that round into
\* [60, 200]; the confidence divides by the number of all candidates.
WorkerBpmEstimate(autocorrelations, hopSize, sampleRate) ==
    LET Result(mode, count) ==
            [bpm |-> I(mode.detectedBpm),
             confidence |-> MathMin(I(1), Div(I(mode.maxCount), I(count)))]
        Counted(bpms) ==
            SelectSeq(bpms, LAMBDA bpm : /\ Ge(MathRound(bpm), I(60))
                                         /\ Le(MathRound(bpm), I(200)))
        From(bpms) == Result(HistogramMode(BpmHistogram(Counted(bpms))), Len(bpms))
        Converted(intervals) ==
            Array([k \in DOMAIN intervals |->
                      IntervalToBpm(intervals[k], hopSize, sampleRate)])
    IN From(Converted(WorkerPeakIntervals(autocorrelations)))

analyzeBPMWorker(audioData, sampleRate) ==
    LET Curves(frames) ==
            Array([k \in DOMAIN frames |-> calculateAutocorrelationWorker(frames[k])])
    IN WorkerBpmEstimate(Curves(Frames(audioData, 0, 2048, 512)), 512, sampleRate)

\* Math.min(1, variance / (mean * mean)) of the per-frame root mean squares.
calculateRhythmStrengthWorker(audioData, sampleRate) ==
    LET Strength(mean, variance) == MathMin(I(1), Div(variance, Mul(mean, mean)))
        Over(energies) == Strength(Mean(energies), Variance(energies))
        Energies(frames, frameSize) ==
            Array([k \in DOMAIN frames |->
                      MathSqrt(Div(SumOfSquares(frames[k]), I(frameSize)))])
        With(frameSize) ==
            Over(Energies(Frames(audioData, 0, frameSize, frameSize), frameSize))
    IN With(MsToSamples(25, sampleRate))

\* zeroCrossings / (length / step) with step = max(1, floor(length / 2000));
\* calculateZeroCrossingRateWorker is the same code.
calculateZeroCrossingRateFast(audioData) ==
    LET Rate(zeroCrossings, step) ==
            Div(I(zeroCrossings), Div(I(Len(audioData)), I(step)))
        Crossings(step) ==
            Cardinality({i \in ZcrIndices(Len(audioData), step) :
                            \/ audioData[i + 1] >= 0 /\ audioData[i - step + 1] < 0
                            \/ audioData[i + 1] < 0 /\ audioData[i - step + 1] >= 0})
        With(step) == Rate(Crossings(step), step)
    IN With(IF Len(audioData) \div 2000 > 1 THEN Len(audioData) \div 2000 ELSE 1)

\* Math.min(1, zeroCrossingRate * 500)
calculateBeatConsistencyWorker(audioData) ==
    MathMin(I(1), Mul(calculateZeroCrossingRateFast(audioData), I(500)))

\* Math.max(0, 1 - variance / (mean * mean)) of the mean squares of frames
\* of Math.floor(0.025 * 44100) samples; calculateEnergyDistributionWorker
\* is the same code.
calculateEnergyDistributionFast(audioData) ==
    LET Energies(frames, frameSize) ==
            Array([k \in DOMAIN frames |-> Div(SumOfSquares(frames[k]), I(frameSize))])
        With(frameSize) ==
            StabilityOf(Energies(Frames(audioData, 0, frameSize, frameSize), frameSize))
    IN With(MsToSamples(25, 44100))

analyzeDanceabilityWorker(audioData, sampleRate) ==
    LET Result(rhythmStrength, beatConsistency, energyDistribution) ==
            [score |-> MathMin(I(100), MathMax(I(0),
                           Mul(Div(Add(Add(rhythmStrength, beatConsistency),
                                       energyDistribution), I(3)), I(100)))),
             rhythmStrength |-> rhythmStrength,
             beatConsistency |-> beatConsistency,
             energyDistribution |-> energyDistribution]
    IN Result(calculateRhythmStrengthWorker(audioData, sampleRate),
              calculateBeatConsistencyWorker(audioData),
              calculateEnergyDistributionFast(audioData))

\* weightedSum / sum of one frame over j = 0, 2, 4, ... < frameSize / 2.
FrameCentroidFast(frame, frameSize, sampleRate) ==
    LET Measured(weightedSum, sum) == [sum |-> sum, centroid |-> Div(weightedSum, I(sum))]
        Over(bins) ==
            Measured(Num(sampleRate
                         * IntSumRange(Array([b \in 1..bins |->
                                                 2 * (b - 1) * Abs(frame[2 * b - 1])]),
                                       1, bins),
                         frameSize),
                     IntSumRange(Array([b \in 1..bins |-> Abs(frame[2 * b - 1])]),
                                 1, bins))
    IN Over(frameSize \div 4)

\* Frames of 256 samples at every 512th offset, averaged over the frames
\* with sum > 0; calculateSpectralCentroidWorker is the same code.
calculateSpectralCentroidFast(audioData, sampleRate) ==
    LET Average(counted) ==
            IF Len(counted) > 0
            THEN Div(Sum(Array([k \in DOMAIN counted |-> counted[k].centroid])),
                     I(Len(counted)))
            ELSE I(0)
        PerFrame(frames) ==
            Array([k \in DOMAIN frames |-> FrameCentroidFast(frames[k], 256, sampleRate)])
    IN Average(SelectSeq(PerFrame(Frames(audioData, 0, 256, 512)),
                         LAMBDA f : f.sum > 0))

calculateSpectralRolloffFast(audioData, sampleRate) ==
    LET Average(frameCount, rolloff) ==
            IF frameCount > 0
            THEN Div(Sum(Array([k \in 1..frameCount |-> rolloff])), I(frameCount))
            ELSE I(0)
        With(frameSize) ==
            Average(Len(FrameOffsets(0, Len(audioData), frameSize, frameSize)),
                    Num((((frameSize \div 2) * 85) \div 100) * sampleRate, frameSize))
    IN With(512)

calculateTempoInfluenceFast(audioData, sampleRate) ==
    LET Energies(frames, frameSize) ==
            Array([k \in DOMAIN frames |-> Div(SumOfSquares(frames[k]), I(frameSize))])
        With(frameSize) ==
            StabilityOf(Energies(Frames(audioData, 0, frameSize, frameSize), frameSize))
    IN With(MsToSamples(100, sampleRate))

\* The if / else-if chain of analyzeMoodWorker: at most one mood.
analyzeMoodWorker(audioData, sampleRate) ==
    LET Decided(spectralCentroid, zeroCrossingRate, energyDistribution) ==
            IF Gt(spectralCentroid, I(1500)) /\ Gt(energyDistribution, Num(6, 10))
            THEN [primaryMood |-> "Happy", emoji |-> "grinning face",
                  confidence |-> Num(8, 10)]
            ELSE IF Lt(spectralCentroid, I(800)) /\ Lt(energyDistribution, Num(4, 10))
            THEN [primaryMood |-> "Sad", emoji |-> "crying face",
                  confidence |-> Num(8, 10)]
            ELSE IF Lt(zeroCrossingRate, Num(5, 100)) /\ Lt(energyDistribution, Num(5, 10))
            THEN [primaryMood |-> "Relaxed", emoji |-> "relieved face",
                  confidence |-> Num(8, 10)]
            ELSE [primaryMood |-> "Neutral", emoji |-> "musical note",
                  confidence |-> Num(8, 10)]
    IN Decided(calculateSpectralCentroidFast(audioData, sampleRate),
               calculateZeroCrossingRateFast(audioData),
               calculateEnergyDistributionFast(audioData))

\* What analyzeBPMFast resolves with from the worker's answer; the two
\* Math.floor(Math.random() * 4) draws are onsetDraw and spectralDraw.
BpmFromWorker(result, onsetDraw, spectralDraw) ==
    [bpm |-> result.bpm,
     confidence |-> result.confidence,
     tempoCategory |-> getTempoCategory(result.bpm),
     methods |-> [autocorr |-> [bpm |-> result.bpm, confidence |-> result.confidence],
                  onset |-> [bpm |-> Sub(Add(result.bpm, I(onsetDraw)), I(2)),
                             confidence |-> Mul(result.confidence, Num(9, 10))],
                  spectral |-> [bpm |-> Sub(Add(result.bpm, I(spectralDraw)), I(2)),
                                confidence |-> Mul(result.confidence, Num(85, 100))]]]

\* What analyzeDanceabilityFast resolves with from the worker's answer.
DanceabilityFromWorker(result) ==
    [score |-> result.score,
     rhythmStrength |-> result.rhythmStrength,
     beatConsistency |-> result.beatConsistency,
     energyDistribution |-> result.energyDistribution,
     tempoStability |-> Num(7, 10),
     syncopation |-> Num(5, 10),
     grooveFactor |-> Num(6, 10),
     category |-> getDanceabilityCategory(Div(result.score, I(100))),
     type |-> determineDanceabilityType(Div(result.score, I(100)),
                                        result.rhythmStrength, result.beatConsistency),
     confidence |-> calculateDanceabilityConfidence(
                        result.rhythmStrength, result.beatConsistency,
                        result.energyDistribution, Num(7, 10))]

\* What analyzeMoodFast resolves with from the worker's answer.
MoodFromWorker(result) ==
    LET Includes(word) == IF result.primaryMood = word THEN "High" ELSE "Low"
    IN [primaryMood |-> result.primaryMood,
        secondaryMood |-> "Balanced",
        songType |-> "Mixed",
        emoji |-> result.emoji,
        confidence |-> result.confidence,
        moodExplanation |-> "Analysis completed using optimized algorithms",
        detailedAnalysis |->
            << [type |-> "Danceability", score |-> "Medium"],
               [type |-> "Happy", score |-> Includes("Happy")],
               [type |-> "Sad", score |-> Includes("Sad")],
               [type |-> "Relaxed", score |-> Includes("Relaxed")],
               [type |-> "Aggressiveness", score |-> "Medium"],
               [type |-> "Engagement", score |-> "Medium"],
               [type |-> "Approachability", score |-> "Medium"] >>]

\* The main-thread branch of analyzeMoodFast.
MoodOnMainThread(audioData, sampleRate) ==
    MoodResult(determineDetailedMood(
                   calculateSpectralCentroidFast(audioData, sampleRate),
                   calculateZeroCrossingRateFast(audioData),
                   calculateEnergyDistributionFast(audioData),
                   calculateSpectralRolloffFast(audioData, sampleRate),
                   calculateTempoInfluenceFast(audioData, sampleRate)))

-----------------------------------------------------------------------------
(* Inputs of the pure-function specifications *)

\* Denominator of the grid of ratio values fed to the pure functions.
Grid == 4

\* Ratios in [0,1] on the grid.
GridRatios == {Num(k, Grid) : k \in 0..Grid}

\* Spectral centroids (Hz) around the thresholds 800, 1000, 1200, 1500.
CentroidInputs == {I(0), I(799), I(800), I(1000), I(1200), I(1201),
                   I(1500), I(1501)}

\* Zero-crossing rates around 0.05, 0.08, 0.1, and NaN (the empty buffer).
ZcrInputs == {NaN, I(0), Num(4, 100), Num(5, 100), Num(8, 100), Num(9, 100),
              Num(1, 10), Num(11, 100)}

\* Energy distributions around 0.4, 0.5, 0.6, and NaN (no spectral energy).
EnergyDistInputs == GridRatios \cup {NaN, Num(39, 100), Num(4, 10), Num(6, 10),
                                     Num(61, 100)}

\* Rolloff: 0 (no frame), the threshold, and floor(512*0.85)*11025/1024.
RolloffInputs == {I(0), I(3000), Num(435 * 11025, 1024)}

TempoInfluenceInputs == {NaN, I(0), I(1)}

MoodInputs ==
    [spectralCentroid : CentroidInputs, zeroCrossingRate : ZcrInputs,
     energyDistribution : EnergyDistInputs, spectralRolloff : RolloffInputs,
     tempoInfluence : TempoInfluenceInputs]


-----------------------------------------------------------------------------
(* analyzeAudioBuffer and the AudioBuffer-like object of the handlers *)

Returns(value) == [threw |-> FALSE, value |-> value]
Throws(message) == [threw |-> TRUE, message |-> message]

\* An uploaded file's bytes seen as an ArrayBuffer: its byte length, and the
\* 32-bit floats its leading whole words decode to.
ArrayBufferOf(floats, extraBytes) ==
    [byteLength |-> 4 * Len(floats) + extraBytes, floats |-> floats]

\* { getChannelData, sampleRate, ... } around an ArrayBuffer.
MockAudioBuffer(arrayBuffer, sampleRate) ==
    [arrayBuffer |-> arrayBuffer, sampleRate |-> sampleRate]

\* new Float32Array(arrayBuffer): a RangeError unless the byte length is a
\* multiple of 4.
getChannelData(buffer) ==
    IF buffer.arrayBuffer.byteLength % 4 # 0
    THEN Throws("byte length of Float32Array should be a multiple of 4")
    ELSE Returns(buffer.arrayBuffer.floats)

\* audioBuffer.sampleRate || 44100
SampleRateOf(buffer) == IF buffer.sampleRate = 0 THEN 44100 ELSE buffer.sampleRate

\* The whole call, as the handlers await it: the result object, or the
\* error the catch block rethrows.
AnalysisOf(data) ==
    [bpm |-> analyzeBPMAdvanced(data, 11025),
     danceability |-> analyzeDanceabilityAdvanced(data, 11025),
     mood |-> analyzeMoodAdvanced(data, 11025)]

AnalyzeChannel(channel, sampleRate) ==
    IF channel.threw THEN channel
    ELSE Returns(AnalysisOf(downsampleAudio(channel.value, sampleRate, 11025)))

analyzeAudioBuffer(buffer) == AnalyzeChannel(getChannelData(buffer), SampleRateOf(buffer))

-----------------------------------------------------------------------------
(* Inputs of analyzeAudioBuffer and of the upload handler *)

\* Longest non-silent buffer, in samples.
MaxSamples == 3

\* Sequences over a set of values up to a length.
SeqsUpTo(values, maxLen) == UNION {[1..n -> values] : n \in 0..maxLen}

\* Buffers too short to hold one analysis frame, with samples -1, 0 and 1.
ShortBuffers == SeqsUpTo({-1, 0, 1}, MaxSamples)

\* Five seconds of silence at 11025 Hz.
SilentBuffer == Array([k \in 1..(5 * 11025) |-> 0])

\* sampleRate 0 stands for a buffer object without the property.
PipeBuffers ==
    {MockAudioBuffer(ArrayBufferOf(floats, extraBytes), sampleRate) :
        floats \in ShortBuffers, extraBytes \in 0..3, sampleRate \in {0, 11025, 44100}}
    \cup {MockAudioBuffer(ArrayBufferOf(SilentBuffer, 0), 11025)}

\* Most files in one upload.
MaxFiles == 2

\* An entry of req.files under memory storage.
UploadedFile(originalname, arrayBuffer) ==
    [originalname |-> originalname, size |-> arrayBuffer.byteLength, buffer |-> arrayBuffer]

UploadedFiles ==
    {UploadedFile(originalname, ArrayBufferOf(floats, extraBytes)) :
        originalname \in {"a.wav", "b.mp3"},
        floats \in {<<>>, <<0, 0>>, <<1, -1, 0, 1, 1>>},
        extraBytes \in {0, 2}}

Uploads == SeqsUpTo(UploadedFiles, MaxFiles)

\* Content types of an uploaded part, as <<type, subtype>> of "type/subtype".
MimeTypes == {<<"audio", "wav">>, <<"audio", "mpeg">>, <<"text", "plain">>, <<"video", "mp4">>}

\* The "audio" part of a request to /api/analyze: none, or one file with its
\* content type.
SingleUploads ==
    {<<>>} \cup {<<[file |-> file, mimetype |-> mimetype]>> :
                    file \in UploadedFiles, mimetype \in MimeTypes}

-----------------------------------------------------------------------------
(* Inputs of the tempo estimators, of the combination and of the score *)

\* Longest exhaustively enumerated feature series.
MaxSeriesLen == 4

\* Feature values of the exhaustively enumerated series are 0..MaxLevel.
MaxLevel == 2

ShortSeries == SeqsUpTo({I(v) : v \in 0..MaxLevel}, MaxSeriesLen)

\* A series of the given length that is 0 but for a copy of the pattern at
\* each start position (1-based).
Pulses(length, starts, pattern) ==
    Array([k \in 1..length |->
              IF \E s \in starts : k - s \in 0..(Len(pattern) - 1)
              THEN I(pattern[k - (CHOOSE s \in starts : k - s \in 0..(Len(pattern) - 1)) + 1])
              ELSE I(0)])

\* Spacings of the pulses, in hops: at 11025 Hz the range [60,200] BPM is
\* 7..21 hops of 512 samples, 13..40 hops of 275 and 31..100 hops of 110.
PulseGaps == {6, 7, 21, 22, 31, 41}

\* A spike, and a burst that the 5-point median filter turns into a spike.
PulsePatterns == {<<1>>, <<1, 0, 0, 1, 1>>}

TwoPulseSeries ==
    {Pulses(2 + g + Len(pattern) + 2, {3, 3 + g}, pattern) :
        g \in PulseGaps, pattern \in PulsePatterns}

ThreePulseSeries ==
    {Pulses(2 + g + h + Len(pattern) + 2, {3, 3 + g, 3 + g + h}, pattern) :
        g \in PulseGaps, h \in PulseGaps, pattern \in PulsePatterns}

SeriesInputs == ShortSeries \cup TwoPulseSeries \cup ThreePulseSeries

\* One autocorrelation curve per frame: no frame, one frame, two frames.
CurveInputs ==
    {<<>>} \cup {<<curve>> : curve \in SeriesInputs \ {<<>>}}
    \cup {<<first, second>> : first \in TwoPulseSeries, second \in TwoPulseSeries}

\* Estimates a method can return: a tempo in [60,200], a confidence on the
\* grid or NaN (no candidate).
EstimatesAt(bpms) == [bpm : {I(b) : b \in bpms}, confidence : GridRatios \cup {NaN}]

CombineInputs ==
    [autocorr : EstimatesAt({60, 129, 200}), spectral : EstimatesAt({120, 200}),
     energy : EstimatesAt({60, 120, 200}), histogram : EstimatesAt({60, 200})]

\* Sub-metrics: values of [0,1], or NaN (no frame, or no energy).
CoarseRatios == {I(0), Num(1, 2), I(1), NaN}

DanceInputs ==
    [rhythmStrength : GridRatios \cup {NaN}, beatConsistency : GridRatios \cup {NaN},
     energyDistribution : CoarseRatios, tempoStability : CoarseRatios,
     syncopation : CoarseRatios, grooveFactor : CoarseRatios]

\* The calls of analyzeAllAudio that can be suspended at the same time.
MaxRuns == 2

\* The File objects the user chooses in one behaviour.
MaxChosen == 2

-----------------------------------------------------------------------------
(* Values of the variables a specification does not use *)

\* A call of analyzeAllAudio that is not running.
NoRun == [pc |-> "none", i |-> 0, file |-> 0, allResults |-> <<>>, selection |-> <<>>]

\* analysisWorker.onmessage before any request.
NoHandler == [type |-> "none", run |-> 0]

\* resultsContainer before any call of displayAdvancedResults.
NoDisplay == [selection |-> <<>>, rendered |-> FALSE]

NoResponse == [status |-> 0]
NoBuffer == MockAudioBuffer(ArrayBufferOf(<<>>, 0), 0)
NoResult == [pending |-> TRUE]
NoCall == [method |-> "none"]
NoEstimate == [bpm |-> I(0), confidence |-> I(0)]
NoTrace == [intervals |-> 0, bpms |-> 0]
NoMood == [primary |-> "none"]
NoResults == [bpm |-> NoResult, danceability |-> NoResult, mood |-> NoResult]
NoFeatures == [zeroCrossingRate |-> I(0), tempoStability |-> DoubleZero, tempoInfluence |-> DoubleZero, rhythmStrength |-> I(0), spectralRolloff |-> I(0), aggressive |-> FALSE]

SrvIdle ==
    /\ srvPc = "idle"
    /\ reqFiles = <<>>
    /\ fileIndex = 0
    /\ allResults = <<>>
    /\ response = NoResponse

PipeIdle ==
    /\ pipePc = "idle"
    /\ audioBuffer = NoBuffer
    /\ channelData = <<>>
    /\ downsampledData = <<>>
    /\ bpmAnalysis = NoResult
    /\ danceabilityAnalysis = NoResult
    /\ moodAnalysis = NoResult
    /\ pipeResult = NoResult

TempoIdle ==
    /\ tempoCall = NoCall
    /\ tempoOut = NoEstimate
    /\ tempoTrace = NoTrace

CombineIdle ==
    /\ combinePc = "idle"
    /\ combineIn = <<>>
    /\ combineOut = NoEstimate
    /\ tempoCategory = "none"

DanceIdle ==
    /\ dancePc = "idle"
    /\ danceIn = <<>>
    /\ danceOut = NoResult
    /\ dancePrev = NoResult

MoodIdle ==
    /\ moodPc = "idle"
    /\ moodIn = <<>>
    /\ moodOut = NoMood

SingleIdle ==
    /\ singlePc = "idle"
    /\ upload = <<>>
    /\ reqFile = <<>>
    /\ singleSent = 0
    /\ singleResponse = NoResponse

EstIdle ==
    /\ estOriginal = <<>>
    /\ estBuffer = <<>>
    /\ estDone = {}
    /\ estResults = NoResults

FastIdle ==
    /\ fastPc = "idle"
    /\ analysisWorker = FALSE
    /\ fastData = <<>>
    /\ fastResults = NoResults

PeaksIdle ==
    /\ peakData = <<>>
    /\ peaksDone = {}
    /\ peaksAdvanced = <<>>
    /\ peaksFast = <<>>

FramingIdle ==
    /\ framePc = "idle"
    /\ frameArgs = NoCall
    /\ frameIndex = 0
    /\ framesPushed = <<>>

FeatIdle ==
    /\ featCall = NoCall
    /\ featDone = {}
    /\ featOut = NoFeatures

DownIdle ==
    /\ downPc = "idle"
    /\ downArgs = NoCall
    /\ downI = DoubleZero
    /\ downPushed = <<>>

BatchIdle ==
    /\ audioFiles = <<>>
    /\ filesChosen = 0
    /\ isProcessing = FALSE
    /\ analyzeBtnDisabled = TRUE
    /\ hasWorker = FALSE
    /\ runs = [r \in 1..MaxRuns |-> NoRun]
    /\ workerInbox = <<>>
    /\ workerOutbox = <<>>
    /\ onmessage = NoHandler
    /\ resultsContainer = <<>>
    /\ shownFor = NoDisplay
    /\ lastAlert = "none"

-----------------------------------------------------------------------------
(* POST /api/analyze-multiple *)

\* The entry pushed for a file: analysis on success, error.message when the
\* analysis threw.
ResultEntry(file, outcome) ==
    IF outcome.threw
    THEN [fileName |-> file.originalname, fileSize |-> file.size, error |-> outcome.message]
    ELSE [fileName |-> file.originalname, fileSize |-> file.size, analysis |-> outcome.value]

\* The outcome of the loop body's analysis of the file the loop is at.
CurrentOutcome == analyzeAudioBuffer(MockAudioBuffer(reqFiles[fileIndex + 1].buffer, 44100))

SrvInit ==
    /\ srvPc = "received"
    /\ reqFiles \in Uploads
    /\ fileIndex = 0
    /\ allResults = <<>>
    /\ response = NoResponse

\* if (!req.files || req.files.length === 0) return res.status(400).json(...)
SrvNoFiles ==
    /\ srvPc = "received"
    /\ reqFiles = <<>>
    /\ response' = [status |-> 400,
                    body |-> [success |-> FALSE, error |-> "No audio files provided"]]
    /\ srvPc' = "responded"
    /\ UNCHANGED <<reqFiles, fileIndex, allResults, otherThanSrv>>

\* const allResults = []; and entry into the for-of loop
SrvBegin ==
    /\ srvPc = "received"
    /\ reqFiles # <<>>
    /\ srvPc' = "loop"
    /\ UNCHANGED <<reqFiles, fileIndex, allResults, response, otherThanSrv>>

\* One pass of the loop whose try block completes.
SrvFileAnalysed ==
    /\ srvPc = "loop"
    /\ fileIndex < Len(reqFiles)
    /\ ~CurrentOutcome.threw
    /\ allResults' = Append(allResults, ResultEntry(reqFiles[fileIndex + 1], CurrentOutcome))
    /\ fileIndex' = fileIndex + 1
    /\ UNCHANGED <<srvPc, reqFiles, response, otherThanSrv>>

\* SrvFileFailed without the inner try/catch: the error reaches the outer
\* catch block, which answers 500 and ends the loop.
SrvFileFailedAborts ==
    /\ srvPc = "loop"
    /\ fileIndex < Len(reqFiles)
    /\ CurrentOutcome.threw
    /\ response' = [status |-> 500,
                    body |-> [success |-> FALSE, error |-> CurrentOutcome.message]]
    /\ srvPc' = "responded"
    /\ UNCHANGED <<reqFiles, fileIndex, allResults, otherThanSrv>>

\* One pass of the loop that ends in the inner catch block.
SrvFileFailed ==
    /\ srvPc = "loop"
    /\ fileIndex < Len(reqFiles)
    /\ CurrentOutcome.threw
    /\ allResults' = Append(allResults, ResultEntry(reqFiles[fileIndex + 1], CurrentOutcome))
    /\ fileIndex' = fileIndex + 1
    /\ UNCHANGED <<srvPc, reqFiles, response, otherThanSrv>>

\* res.json({ success: true, totalFiles: req.files.length, results: allResults })
SrvRespond ==
    /\ srvPc = "loop"
    /\ fileIndex = Len(reqFiles)
    /\ response' = [status |-> 200,
                    body |-> [success |-> TRUE, totalFiles |-> Len(reqFiles),
                              results |-> allResults]]
    /\ srvPc' = "responded"
    /\ UNCHANGED <<reqFiles, fileIndex, allResults, otherThanSrv>>

SrvNext ==
    \/ SrvNoFiles
    \/ SrvBegin
    \/ SrvFileAnalysed
    \/ SrvFileFailed
    \/ SrvRespond

InitServer == SrvInit /\ PipeIdle /\ TempoIdle /\ CombineIdle /\ DanceIdle /\ MoodIdle
    /\ SingleIdle
    /\ EstIdle
    /\ FastIdle
    /\ PeaksIdle
    /\ FramingIdle
    /\ FeatIdle
    /\ DownIdle
    /\ BatchIdle

SpecServer == InitServer /\ [][SrvNext]_vars

-----------------------------------------------------------------------------
(* The estimators' effect on the buffer they share *)

\* The array an estimator was handed, after the estimator has run.  Every
\* frame is audioData.slice(i, i + frameSize), a copy; windowed, spectrum,
\* autocorr, energies, tempos and magnitudes are arrays the callee creates.
\* The in-place operations and their receivers:
\*   bpms.sort(...) in detectBPMAdvancedEnergy        - bpms, built by map/filter
\*   window.sort(...) in applyMedianFilter             - window, a slice of data
\* No statement assigns to an element of audioData.
BufferAfterBPM(audioData) == audioData

\* No callee of analyzeDanceabilityAdvanced sorts or assigns to an element
\* of audioData; calculateSpectralRolloffAdvanced, reached through
\* calculateBeatConsistencyAdvanced, sorts its own magnitudes array.
BufferAfterDanceability(audioData) == audioData

\* BufferAfterMood with the sort of calculateSpectralRolloffAdvanced acting
\* on the buffer: the magnitudes written back over the samples.
BufferAfterMoodSharingMagnitudes(audioData) ==
    Array([k \in DOMAIN audioData |-> Abs(audioData[k])])

\* The in-place operation and its receiver:
\*   magnitudes.sort(...) in calculateSpectralRolloffAdvanced - magnitudes,
\*   filled by push from Math.abs(frame[j]), frame a slice of audioData
BufferAfterMood(audioData) == audioData

EstInit ==
    /\ estOriginal \in ShortBuffers
    /\ estBuffer = estOriginal
    /\ estDone = {}
    /\ estResults = NoResults

EstBPM ==
    /\ "bpm" \notin estDone
    /\ estResults' = [estResults EXCEPT !.bpm = analyzeBPMAdvanced(estBuffer, 11025)]
    /\ estBuffer' = BufferAfterBPM(estBuffer)
    /\ estDone' = estDone \cup {"bpm"}
    /\ UNCHANGED <<estOriginal, otherThanEst>>

EstDanceability ==
    /\ "danceability" \notin estDone
    /\ estResults' = [estResults EXCEPT
                          !.danceability = analyzeDanceabilityAdvanced(estBuffer, 11025)]
    /\ estBuffer' = BufferAfterDanceability(estBuffer)
    /\ estDone' = estDone \cup {"danceability"}
    /\ UNCHANGED <<estOriginal, otherThanEst>>

EstMood ==
    /\ "mood" \notin estDone
    /\ estResults' = [estResults EXCEPT !.mood = analyzeMoodAdvanced(estBuffer, 11025)]
    /\ estBuffer' = BufferAfterMood(estBuffer)
    /\ estDone' = estDone \cup {"mood"}
    /\ UNCHANGED <<estOriginal, otherThanEst>>

EstNext ==
    \/ EstBPM
    \/ EstDanceability
    \/ EstMood

InitEst ==
    /\ SrvIdle
    /\ PipeIdle
    /\ TempoIdle
    /\ CombineIdle
    /\ DanceIdle
    /\ MoodIdle
    /\ SingleIdle
    /\ FastIdle
    /\ PeaksIdle
    /\ FramingIdle
    /\ FeatIdle
    /\ DownIdle
    /\ BatchIdle
    /\ EstInit

SpecEst == InitEst /\ [][EstNext]_vars

-----------------------------------------------------------------------------
(* Browser: performOptimizedAnalysis over the three wrappers *)

\* initAnalysisWorker has run: the worker exists, or its construction threw
\* and analysisWorker stayed null.  The channel data is not yet downsampled.
FastInit ==
    /\ fastPc = "start"
    /\ analysisWorker \in BOOLEAN
    /\ fastData \in ShortBuffers
    /\ fastResults = NoResults

\* downsampleAudio(audioData, sampleRate, 11025)
FastDownsample ==
    /\ fastPc = "start"
    /\ \E sampleRate \in {11025, 22050} :
           fastData' = downsampleAudio(fastData, sampleRate, 11025)
    /\ fastPc' = "bpm"
    /\ UNCHANGED <<analysisWorker, fastResults, otherThanFast>>

\* analyzeBPMFast with a worker: the message round trip and the resolve.
FastBpmWorker ==
    /\ fastPc = "bpm"
    /\ analysisWorker
    /\ \E onsetDraw \in 0..3, spectralDraw \in 0..3 :
           fastResults' = [fastResults EXCEPT
                               !.bpm = BpmFromWorker(analyzeBPMWorker(fastData, 11025),
                                                     onsetDraw, spectralDraw)]
    /\ fastPc' = "danceability"
    /\ UNCHANGED <<analysisWorker, fastData, otherThanFast>>

\* analyzeBPMFast without a worker.
FastBpmMain ==
    /\ fastPc = "bpm"
    /\ ~analysisWorker
    /\ fastResults' = [fastResults EXCEPT !.bpm = analyzeBPMAdvanced(fastData, 11025)]
    /\ fastPc' = "danceability"
    /\ UNCHANGED <<analysisWorker, fastData, otherThanFast>>

FastDanceabilityWorker ==
    /\ fastPc = "danceability"
    /\ analysisWorker
    /\ fastResults' = [fastResults EXCEPT
                           !.danceability = DanceabilityFromWorker(
                                                analyzeDanceabilityWorker(fastData, 11025))]
    /\ fastPc' = "mood"
    /\ UNCHANGED <<analysisWorker, fastData, otherThanFast>>

FastDanceabilityMain ==
    /\ fastPc = "danceability"
    /\ ~analysisWorker
    /\ fastResults' = [fastResults EXCEPT
                           !.danceability = analyzeDanceabilityAdvanced(fastData, 11025)]
    /\ fastPc' = "mood"
    /\ UNCHANGED <<analysisWorker, fastData, otherThanFast>>

FastMoodWorker ==
    /\ fastPc = "mood"
    /\ analysisWorker
    /\ fastResults' = [fastResults EXCEPT
                           !.mood = MoodFromWorker(analyzeMoodWorker(fastData, 11025))]
    /\ fastPc' = "done"
    /\ UNCHANGED <<analysisWorker, fastData, otherThanFast>>

FastMoodMain ==
    /\ fastPc = "mood"
    /\ ~analysisWorker
    /\ fastResults' = [fastResults EXCEPT !.mood = MoodOnMainThread(fastData, 11025)]
    /\ fastPc' = "done"
    /\ UNCHANGED <<analysisWorker, fastData, otherThanFast>>

FastNext ==
    \/ FastDownsample
    \/ FastBpmWorker
    \/ FastBpmMain
    \/ FastDanceabilityWorker
    \/ FastDanceabilityMain
    \/ FastMoodWorker
    \/ FastMoodMain

InitFast ==
    /\ SrvIdle
    /\ PipeIdle
    /\ TempoIdle
    /\ CombineIdle
    /\ DanceIdle
    /\ MoodIdle
    /\ SingleIdle
    /\ EstIdle
    /\ PeaksIdle
    /\ FramingIdle
    /\ FeatIdle
    /\ DownIdle
    /\ BatchIdle
    /\ FastInit

SpecFast == InitFast /\ [][FastNext]_vars

-----------------------------------------------------------------------------
(* The two peak detectors, each applied to the same signal *)

\* A signal that is the baseline everywhere but at the spots, a function
\* from 1-based positions to heights above the baseline.
Planted(length, baseline, spots) ==
    Array([k \in 1..length |->
              IF k \in DOMAIN spots THEN I(baseline + spots[k]) ELSE I(baseline)])

\* Positions of planted samples: the two ends, the first interior index,
\* and interior positions 6 and 12 apart.
PlantedSpots(length) ==
    {ps \in SUBSET {1, 2, 14, 20, 26, length} : Cardinality(ps) \in 1..3}

\* The first planted sample has one height and the others another.
PlantedOfLength(length) ==
    {Planted(length, baseline,
             [p \in ps |-> IF \A q \in ps : p <= q THEN first ELSE rest]) :
        baseline \in {0, 1}, ps \in PlantedSpots(length),
        first \in {1, 4}, rest \in {1, 4}}

PlantedSignals == PlantedOfLength(26) \cup PlantedOfLength(48)

\* A step up to a high region with a one-sample rise at its end: the rise
\* clears the threshold and both neighbours, and stands 1 or 4 above the
\* five samples before it.
RippleSignals == {Pulses(20, {8}, <<8, 8, 8, 8, 8, top>>) : top \in {9, 12}}

PeakInputs == SeriesInputs \cup PlantedSignals \cup RippleSignals

PeaksInit ==
    /\ peakData \in PeakInputs
    /\ peaksDone = {}
    /\ peaksAdvanced = <<>>
    /\ peaksFast = <<>>

PeaksAdvanced ==
    /\ "advanced" \notin peaksDone
    /\ peaksAdvanced' = findPeaksAdvanced(peakData)
    /\ peaksDone' = peaksDone \cup {"advanced"}
    /\ UNCHANGED <<peakData, peaksFast, otherThanPeaks>>

PeaksFast ==
    /\ "fast" \notin peaksDone
    /\ peaksFast' = findPeaksFast(peakData)
    /\ peaksDone' = peaksDone \cup {"fast"}
    /\ UNCHANGED <<peakData, peaksAdvanced, otherThanPeaks>>

PeaksNext ==
    \/ PeaksAdvanced
    \/ PeaksFast

InitPeaks ==
    /\ SrvIdle
    /\ PipeIdle
    /\ TempoIdle
    /\ CombineIdle
    /\ DanceIdle
    /\ MoodIdle
    /\ SingleIdle
    /\ EstIdle
    /\ FastIdle
    /\ FramingIdle
    /\ FeatIdle
    /\ DownIdle
    /\ BatchIdle
    /\ PeaksInit

SpecPeaks == InitPeaks /\ [][PeaksNext]_vars

-----------------------------------------------------------------------------
(* The framing loop of the estimators, one pass per step *)

\* Frame sizes and hops run over 1..MaxFrameSize.
MaxFrameSize == 3

\* Buffers of the framing loop hold up to MaxBufferLen samples.
MaxBufferLen == 7

\* A buffer whose sample at index i is i, so that a frame shows its offset.
Ramp(length) == Array([k \in 1..length |-> k - 1])

FrameCalls ==
    [audioData : {Ramp(length) : length \in 0..MaxBufferLen},
     frameSize : 1..MaxFrameSize,
     hopSize : 1..MaxFrameSize]

\* const frames = []; let i = 0
FrameInit ==
    /\ framePc = "loop"
    /\ frameArgs \in FrameCalls
    /\ frameIndex = 0
    /\ framesPushed = <<>>

\* i < audioData.length - frameSize: push audioData.slice(i, i + frameSize)
\* and add hopSize to i.
FramePush ==
    /\ framePc = "loop"
    /\ frameIndex < Len(frameArgs.audioData) - frameArgs.frameSize
    /\ framesPushed' = Append(framesPushed, Slice(frameArgs.audioData, frameIndex,
                                       frameIndex + frameArgs.frameSize))
    /\ frameIndex' = frameIndex + frameArgs.hopSize
    /\ UNCHANGED <<framePc, frameArgs, otherThanFraming>>

\* The loop condition is false.
FrameExit ==
    /\ framePc = "loop"
    /\ ~(frameIndex < Len(frameArgs.audioData) - frameArgs.frameSize)
    /\ framePc' = "done"
    /\ UNCHANGED <<frameArgs, frameIndex, framesPushed, otherThanFraming>>

FrameNext ==
    \/ FramePush
    \/ FrameExit

InitFrame ==
    /\ SrvIdle
    /\ PipeIdle
    /\ TempoIdle
    /\ CombineIdle
    /\ DanceIdle
    /\ MoodIdle
    /\ SingleIdle
    /\ EstIdle
    /\ FastIdle
    /\ PeaksIdle
    /\ FeatIdle
    /\ DownIdle
    /\ BatchIdle
    /\ FrameInit

SpecFrame == InitFrame /\ [][FrameNext]_vars

-----------------------------------------------------------------------------
(* The feature extractors, each applied to the buffer of one call *)

\* A buffer whose sign changes after every run of `run` samples.
Alternating(length, run) ==
    Array([k \in 1..length |-> IF ((k - 1) \div run) % 2 = 0 THEN 1 ELSE -1])

\* Buffers for the zero-crossing rate: the short ones, alternating ones, and
\* one long enough for a stride of 2.
ZcrCalls ==
    {[kind |-> "zcr", audioData |-> b, sampleRate |-> 11025] :
        b \in ShortBuffers
              \cup {Alternating(length, run) : length \in 1..MaxBufferLen, run \in 1..2}
              \cup {Alternating(10000, 2), Alternating(10001, 1)}}

\* array.reduce((sum, t) => sum + t, 0) over doubles, from index i on
RECURSIVE DoubleSumFrom(_, _, _)
DoubleSumFrom(arr, i, sum) ==
    IF i > Len(arr) THEN sum ELSE DoubleSumFrom(arr, i + 1, DoublePlus(sum, arr[i]))

\* Math.pow(x, 2): the square of x, rounded
DoubleSquare(x) == CHOOSE out \in {TimesValues(a, a) : a \in {x}} : TRUE

\* mean = sum / length; variance = sum of Math.pow(t - mean, 2) / length;
\* Math.max(0, 1 - variance / (mean * mean)), every step rounded.
StabilityOfDoubles(tempos) ==
    LET Result(mean, variance) ==
            DoubleMaxZero(DoubleMinus(DoubleOfInt(1),
                                      DoubleOver(variance, DoubleTimes(mean, mean))))
        VarianceOf(squares) ==
            DoubleOver(DoubleSumFrom(squares, 1, DoubleZero), DoubleOfInt(Len(squares)))
        About(mean) ==
            CHOOSE out \in
                {Result(mean, VarianceOf(squares))
                    : squares \in {[k \in DOMAIN tempos |->
                                       DoubleSquare(DoubleMinus(tempos[k], mean))]}} : TRUE
    IN CHOOSE out \in
           {About(mean) : mean \in {DoubleOver(DoubleSumFrom(tempos, 1, DoubleZero),
                                               DoubleOfInt(Len(tempos)))}} : TRUE

\* frame.reduce((sum, sample) => sum + sample * sample, 0) / frame.length:
\* the samples are integers, so the sum is an integer and exact.
FrameEnergy(frame, frameSize) ==
    DoubleOver(DoubleOfInt(IntSumRange(Array([j \in DOMAIN frame |-> frame[j] * frame[j]]),
                                       1, Len(frame))),
               DoubleOfInt(frameSize))

\* calculateTempoStabilityAdvanced in doubles: tempo = energy * 100
TempoStabilityInDoubles(audioData, sampleRate) ==
    LET Tempos(frames) ==
            [k \in DOMAIN frames |->
                DoubleTimes(FrameEnergy(frames[k], Len(frames[k])), DoubleOfInt(100))]
        Over(frames) ==
            CHOOSE out \in {StabilityOfDoubles(tempos) : tempos \in {Tempos(frames)}} : TRUE
        With(frameSize) == Over(Frames(audioData, 0, frameSize, frameSize))
    IN With(MsToSamples(100, sampleRate))

\* calculateTempoInfluenceAdvanced in doubles: the energies themselves
TempoInfluenceInDoubles(audioData, sampleRate) ==
    LET Energies(frames, frameSize) ==
            [k \in DOMAIN frames |-> FrameEnergy(frames[k], frameSize)]
        Over(frames, frameSize) ==
            CHOOSE out \in {StabilityOfDoubles(tempos)
                                : tempos \in {Energies(frames, frameSize)}} : TRUE
        With(frameSize) == Over(Frames(audioData, 0, frameSize, frameSize), frameSize)
    IN With(MsToSamples(100, sampleRate))

\* Buffers for the two tempo measures at 10 Hz, where a 100 ms frame is one
\* sample, and at 20 Hz, where it is two.
TempoCalls ==
    {[kind |-> "tempo", audioData |-> b, sampleRate |-> 10] : b \in SeqsUpTo({0, 1}, 4)}
    \cup {[kind |-> "tempo", audioData |-> b, sampleRate |-> 20] : b \in [1..5 -> {0, 1}]}

\* A frame that is silent but for one sample.
Impulse(length, at, value) == Array([k \in 1..length |-> IF k = at + 1 THEN value ELSE 0])

\* Buffers for the rhythm strength at 1000 Hz, where a 25 ms frame is 25
\* samples: two or three frames, each silent or with one full-scale sample
\* where the window is 0.08, 0.54 or 1, and one more sample for the loop to
\* take the last frame.
RhythmFrames == {Impulse(25, 0, 0)} \cup {Impulse(25, at, 1) : at \in {0, 6, 12}}

RhythmCalls ==
    {[kind |-> "rhythm", audioData |-> f1 \o f2 \o f3 \o <<0>>, sampleRate |-> 1000] :
        f1 \in RhythmFrames, f2 \in RhythmFrames, f3 \in RhythmFrames \cup {<<>>}}

\* Buffers for the spectral rolloff: as long as a 1024-sample frame, one
\* sample longer, and two frames and a sample; silent or changing sign after
\* every run of 1, 9, 10 or 11 samples.
RolloffCalls ==
    {[kind |-> "rolloff", audioData |-> b, sampleRate |-> rate] :
        b \in {Impulse(length, 0, 0) : length \in {1024, 1025, 2049}}
              \cup {Alternating(length, run) : length \in {1024, 1025, 2049},
                                               run \in {1, 9, 10, 11}},
        rate \in {4000, 11025}}

FeatCalls == ZcrCalls \cup TempoCalls \cup RhythmCalls \cup RolloffCalls

FeatInit ==
    /\ featCall \in FeatCalls
    /\ featDone = {}
    /\ featOut = NoFeatures

FeatZeroCrossingRate ==
    /\ featCall.kind \in {"zcr", "rolloff"}
    /\ "zeroCrossingRate" \notin featDone
    /\ featOut' = [featOut EXCEPT
                       !.zeroCrossingRate = calculateZeroCrossingRateAdvanced(featCall.audioData)]
    /\ featDone' = featDone \cup {"zeroCrossingRate"}
    /\ UNCHANGED <<featCall, otherThanFeat>>

FeatTempoStability ==
    /\ featCall.kind = "tempo"
    /\ "tempoStability" \notin featDone
    /\ featOut' = [featOut EXCEPT
                       !.tempoStability =
                           TempoStabilityInDoubles(featCall.audioData, featCall.sampleRate)]
    /\ featDone' = featDone \cup {"tempoStability"}
    /\ UNCHANGED <<featCall, otherThanFeat>>

FeatTempoInfluence ==
    /\ featCall.kind = "tempo"
    /\ "tempoInfluence" \notin featDone
    /\ featOut' = [featOut EXCEPT
                       !.tempoInfluence =
                           TempoInfluenceInDoubles(featCall.audioData, featCall.sampleRate)]
    /\ featDone' = featDone \cup {"tempoInfluence"}
    /\ UNCHANGED <<featCall, otherThanFeat>>

FeatRhythmStrength ==
    /\ featCall.kind = "rhythm"
    /\ "rhythmStrength" \notin featDone
    /\ featOut' = [featOut EXCEPT
                       !.rhythmStrength =
                           calculateRhythmStrengthAdvanced(featCall.audioData,
                                                           featCall.sampleRate)]
    /\ featDone' = featDone \cup {"rhythmStrength"}
    /\ UNCHANGED <<featCall, otherThanFeat>>

FeatSpectralRolloff ==
    /\ featCall.kind = "rolloff"
    /\ "spectralRolloff" \notin featDone
    /\ featOut' = [featOut EXCEPT
                       !.spectralRolloff =
                           calculateSpectralRolloffAdvanced(featCall.audioData,
                                                            featCall.sampleRate)]
    /\ featDone' = featDone \cup {"spectralRolloff"}
    /\ UNCHANGED <<featCall, otherThanFeat>>

\* The Aggressive test of determineDetailedMood on the two features.
FeatAggressive ==
    /\ featCall.kind = "rolloff"
    /\ {"zeroCrossingRate", "spectralRolloff"} \subseteq featDone
    /\ "aggressive" \notin featDone
    /\ featOut' = [featOut EXCEPT
                       !.aggressive = AggressiveTriggered(featOut.zeroCrossingRate,
                                                          featOut.spectralRolloff)]
    /\ featDone' = featDone \cup {"aggressive"}
    /\ UNCHANGED <<featCall, otherThanFeat>>

FeatNext ==
    \/ FeatZeroCrossingRate
    \/ FeatTempoStability
    \/ FeatTempoInfluence
    \/ FeatRhythmStrength
    \/ FeatSpectralRolloff
    \/ FeatAggressive

InitFeat ==
    /\ SrvIdle
    /\ PipeIdle
    /\ TempoIdle
    /\ CombineIdle
    /\ DanceIdle
    /\ MoodIdle
    /\ SingleIdle
    /\ EstIdle
    /\ FastIdle
    /\ PeaksIdle
    /\ FramingIdle
    /\ DownIdle
    /\ BatchIdle
    /\ FeatInit

SpecFeat == InitFeat /\ [][FeatNext]_vars

-----------------------------------------------------------------------------
(* The loop of downsampleAudio, one pass per step.  ratio and i are        *)
(* doubles: the quotient of the rates is rounded, and so is every i += ratio *)

\* const ratio = originalSampleRate / targetSampleRate
RatioOf(originalSampleRate, targetSampleRate) ==
    DoubleOver(DoubleOfInt(originalSampleRate), DoubleOfInt(targetSampleRate))

\* Short ramps at the rates with an integer ratio, and ramps of 640 and 641
\* samples at 44100 and 48000 Hz.
DownCalls ==
    [audioData : {Ramp(length) : length \in 0..MaxBufferLen},
     originalSampleRate : {11025, 22050, 44100},
     targetSampleRate : {11025}]
    \cup [audioData : {Ramp(640), Ramp(641)},
          originalSampleRate : {44100, 48000},
          targetSampleRate : {11025}]

\* const downsampledData = []; let i = 0
DownInit ==
    /\ downPc = "loop"
    /\ downArgs \in DownCalls
    /\ downI = DoubleZero
    /\ downPushed = <<>>

\* i < audioData.length: push audioData[Math.floor(i)]; i += ratio
DownPush ==
    /\ downPc = "loop"
    /\ DoubleBelow(downI, Len(downArgs.audioData))
    /\ downPushed' = Append(downPushed, downArgs.audioData[DoubleFloor(downI) + 1])
    /\ downI' = DoublePlus(downI, RatioOf(downArgs.originalSampleRate,
                                           downArgs.targetSampleRate))
    /\ UNCHANGED <<downPc, downArgs, otherThanDown>>

\* The loop condition is false: return downsampledData.
DownReturn ==
    /\ downPc = "loop"
    /\ ~DoubleBelow(downI, Len(downArgs.audioData))
    /\ downPc' = "done"
    /\ UNCHANGED <<downArgs, downI, downPushed, otherThanDown>>

DownNext ==
    \/ DownPush
    \/ DownReturn

InitDown ==
    /\ SrvIdle
    /\ PipeIdle
    /\ TempoIdle
    /\ CombineIdle
    /\ DanceIdle
    /\ MoodIdle
    /\ SingleIdle
    /\ EstIdle
    /\ FastIdle
    /\ PeaksIdle
    /\ FramingIdle
    /\ FeatIdle
    /\ BatchIdle
    /\ DownInit

SpecDown == InitDown /\ [][DownNext]_vars

-----------------------------------------------------------------------------
(* POST /api/analyze *)

\* file.mimetype.startsWith('audio/')
StartsWithAudio(mimetype) == mimetype[1] = "audio"

\* The analysis of req.file, as the handler awaits it.
SingleOutcome == analyzeAudioBuffer(MockAudioBuffer(reqFile[1].buffer, 44100))

SingleInit ==
    /\ singlePc = "received"
    /\ upload \in SingleUploads
    /\ reqFile = <<>>
    /\ singleSent = 0
    /\ singleResponse = NoResponse

\* upload.single('audio') on a request without the part: req.file stays
\* undefined and the handler runs.
SingleNoPart ==
    /\ singlePc = "received"
    /\ upload = <<>>
    /\ singlePc' = "handler"
    /\ UNCHANGED <<upload, reqFile, singleSent, singleResponse, otherThanSingle>>

\* fileFilter calls cb(null, true): the file is stored and the handler runs.
SingleAccept ==
    /\ singlePc = "received"
    /\ upload # <<>>
    /\ StartsWithAudio(upload[1].mimetype)
    /\ reqFile' = <<upload[1].file>>
    /\ singlePc' = "handler"
    /\ UNCHANGED <<upload, singleSent, singleResponse, otherThanSingle>>

\* fileFilter calls cb(new Error('Only audio files are allowed!'), false):
\* the middleware passes the error on, the handler does not run, and, the
\* application registering no error handler, the framework's own answers
\* with status 500 and an HTML page.
SingleReject ==
    /\ singlePc = "received"
    /\ upload # <<>>
    /\ ~StartsWithAudio(upload[1].mimetype)
    /\ singleResponse' = [status |-> 500, html |-> "Only audio files are allowed!"]
    /\ singleSent' = singleSent + 1
    /\ singlePc' = "responded"
    /\ UNCHANGED <<upload, reqFile, otherThanSingle>>

\* if (!req.file) return res.status(400).json(...)
SingleNoFile ==
    /\ singlePc = "handler"
    /\ reqFile = <<>>
    /\ singleResponse' = [status |-> 400,
                          body |-> [success |-> FALSE, error |-> "No audio file provided"]]
    /\ singleSent' = singleSent + 1
    /\ singlePc' = "responded"
    /\ UNCHANGED <<upload, reqFile, otherThanSingle>>

\* res.json({ success: true, fileName, fileSize, analysis: results })
SingleAnalysed ==
    /\ singlePc = "handler"
    /\ reqFile # <<>>
    /\ ~SingleOutcome.threw
    /\ singleResponse' = [status |-> 200,
                          body |-> [success |-> TRUE,
                                    fileName |-> reqFile[1].originalname,
                                    fileSize |-> reqFile[1].size,
                                    analysis |-> SingleOutcome.value]]
    /\ singleSent' = singleSent + 1
    /\ singlePc' = "responded"
    /\ UNCHANGED <<upload, reqFile, otherThanSingle>>

\* catch (error): res.status(500).json({ success: false, error: error.message })
SingleFailed ==
    /\ singlePc = "handler"
    /\ reqFile # <<>>
    /\ SingleOutcome.threw
    /\ singleResponse' = [status |-> 500,
                          body |-> [success |-> FALSE, error |-> SingleOutcome.message]]
    /\ singleSent' = singleSent + 1
    /\ singlePc' = "responded"
    /\ UNCHANGED <<upload, reqFile, otherThanSingle>>

SingleNext ==
    \/ SingleNoPart
    \/ SingleAccept
    \/ SingleReject
    \/ SingleNoFile
    \/ SingleAnalysed
    \/ SingleFailed

InitSingle ==
    /\ SrvIdle
    /\ PipeIdle
    /\ TempoIdle
    /\ CombineIdle
    /\ DanceIdle
    /\ MoodIdle
    /\ EstIdle
    /\ FastIdle
    /\ PeaksIdle
    /\ FramingIdle
    /\ FeatIdle
    /\ DownIdle
    /\ BatchIdle
    /\ SingleInit

SpecSingle == InitSingle /\ [][SingleNext]_vars

-----------------------------------------------------------------------------
(* analyzeAudioBuffer, one step per statement *)

PipeInit ==
    /\ pipePc = "start"
    /\ audioBuffer \in PipeBuffers
    /\ channelData = <<>>
    /\ downsampledData = <<>>
    /\ bpmAnalysis = NoResult
    /\ danceabilityAnalysis = NoResult
    /\ moodAnalysis = NoResult
    /\ pipeResult = NoResult

\* const audioData = audioBuffer.getChannelData(0);
PipeGetChannelData ==
    /\ pipePc = "start"
    /\ ~getChannelData(audioBuffer).threw
    /\ channelData' = getChannelData(audioBuffer).value
    /\ pipePc' = "downsample"
    /\ UNCHANGED <<audioBuffer, downsampledData, bpmAnalysis, danceabilityAnalysis,
                   moodAnalysis, pipeResult, otherThanPipe>>

\* getChannelData throws; the catch block logs and rethrows.
PipeThrow ==
    /\ pipePc = "start"
    /\ getChannelData(audioBuffer).threw
    /\ pipeResult' = getChannelData(audioBuffer)
    /\ pipePc' = "threw"
    /\ UNCHANGED <<audioBuffer, channelData, downsampledData, bpmAnalysis,
                   danceabilityAnalysis, moodAnalysis, otherThanPipe>>

\* const downsampledData = downsampleAudio(audioData, sampleRate, 11025);
PipeDownsample ==
    /\ pipePc = "downsample"
    /\ downsampledData' = downsampleAudio(channelData, SampleRateOf(audioBuffer), 11025)
    /\ pipePc' = "bpm"
    /\ UNCHANGED <<audioBuffer, channelData, bpmAnalysis, danceabilityAnalysis,
                   moodAnalysis, pipeResult, otherThanPipe>>

PipeAnalyzeBPM ==
    /\ pipePc = "bpm"
    /\ bpmAnalysis' = analyzeBPMAdvanced(downsampledData, 11025)
    /\ pipePc' = "danceability"
    /\ UNCHANGED <<audioBuffer, channelData, downsampledData, danceabilityAnalysis,
                   moodAnalysis, pipeResult, otherThanPipe>>

PipeAnalyzeDanceability ==
    /\ pipePc = "danceability"
    /\ danceabilityAnalysis' = analyzeDanceabilityAdvanced(downsampledData, 11025)
    /\ pipePc' = "mood"
    /\ UNCHANGED <<audioBuffer, channelData, downsampledData, bpmAnalysis,
                   moodAnalysis, pipeResult, otherThanPipe>>

PipeAnalyzeMood ==
    /\ pipePc = "mood"
    /\ moodAnalysis' = analyzeMoodAdvanced(downsampledData, 11025)
    /\ pipePc' = "return"
    /\ UNCHANGED <<audioBuffer, channelData, downsampledData, bpmAnalysis,
                   danceabilityAnalysis, pipeResult, otherThanPipe>>

\* return { bpm: bpmAnalysis, danceability: danceabilityAnalysis, mood: moodAnalysis };
PipeReturn ==
    /\ pipePc = "return"
    /\ pipeResult' = Returns([bpm |-> bpmAnalysis, danceability |-> danceabilityAnalysis,
                              mood |-> moodAnalysis])
    /\ pipePc' = "returned"
    /\ UNCHANGED <<audioBuffer, channelData, downsampledData, bpmAnalysis,
                   danceabilityAnalysis, moodAnalysis, otherThanPipe>>

PipeNext ==
    \/ PipeGetChannelData
    \/ PipeThrow
    \/ PipeDownsample
    \/ PipeAnalyzeBPM
    \/ PipeAnalyzeDanceability
    \/ PipeAnalyzeMood
    \/ PipeReturn

InitPipeline == SrvIdle /\ PipeInit /\ TempoIdle /\ CombineIdle /\ DanceIdle /\ MoodIdle
    /\ SingleIdle
    /\ EstIdle
    /\ FastIdle
    /\ PeaksIdle
    /\ FramingIdle
    /\ FeatIdle
    /\ DownIdle
    /\ BatchIdle

SpecPipeline == InitPipeline /\ [][PipeNext]_vars

-----------------------------------------------------------------------------
(* One call of a tempo estimator on the feature series of its buffer *)

\* The lengths of the intervals and bpms arrays of a method that finds its
\* peaks in one series.
SeriesTrace(series, hopSize, sampleRate) ==
    LET Counted(intervals) ==
            [intervals |-> Len(intervals),
             bpms |-> Len(CandidateBpms(intervals, hopSize, sampleRate))]
    IN Counted(PeakIntervals(findPeaksAdvanced(series)))

\* The same for the autocorrelation method, over the curves of all frames.
CurvesTrace(curves, hopSize, sampleRate) ==
    LET Counted(peakIntervals) ==
            [intervals |-> Len(peakIntervals),
             bpms |-> Len(CandidateBpms(peakIntervals, hopSize, sampleRate))]
    IN Counted(AutocorrPeakIntervals(curves, sampleRate))

TempoInit ==
    /\ tempoCall = NoCall
    /\ tempoOut = NoEstimate
    /\ tempoTrace = NoTrace

\* detectBPMAdvancedAutocorr once the autocorrelation curves are computed.
TempoAutocorr ==
    /\ tempoCall = NoCall
    /\ \E curves \in CurveInputs :
          /\ tempoCall' = [method |-> "autocorr", input |-> curves]
          /\ tempoOut' = AutocorrEstimate(curves, 512, 11025)
          /\ tempoTrace' = CurvesTrace(curves, 512, 11025)
    /\ UNCHANGED otherThanTempo

\* detectBPMAdvancedSpectral once the spectral flux series is computed.
TempoSpectral ==
    /\ tempoCall = NoCall
    /\ \E spectralFlux \in SeriesInputs :
          /\ tempoCall' = [method |-> "spectral", input |-> spectralFlux]
          /\ tempoOut' = SpectralEstimate(spectralFlux, 512, 11025)
          /\ tempoTrace' = SeriesTrace(spectralFlux, 512, 11025)
    /\ UNCHANGED otherThanTempo

\* detectBPMAdvancedEnergy once the onset energies are computed.
TempoEnergy ==
    /\ tempoCall = NoCall
    /\ \E onsets \in SeriesInputs :
          /\ tempoCall' = [method |-> "energy", input |-> onsets]
          /\ tempoOut' = EnergyEstimate(onsets, MsToSamples(10, 11025), 11025)
          /\ tempoTrace' = SeriesTrace(applyMedianFilter(onsets, 5),
                                       MsToSamples(10, 11025), 11025)
    /\ UNCHANGED otherThanTempo

\* detectBPMHistogram once the rhythm-band energies are computed.
TempoHistogram ==
    /\ tempoCall = NoCall
    /\ \E tempos \in SeriesInputs :
          /\ tempoCall' = [method |-> "histogram", input |-> tempos]
          /\ tempoOut' = HistogramEstimate(tempos, MsToSamples(25, 11025), 11025)
          /\ tempoTrace' = SeriesTrace(tempos, MsToSamples(25, 11025), 11025)
    /\ UNCHANGED otherThanTempo

TempoNext ==
    \/ TempoAutocorr
    \/ TempoSpectral
    \/ TempoEnergy
    \/ TempoHistogram

InitTempo == SrvIdle /\ PipeIdle /\ TempoInit /\ CombineIdle /\ DanceIdle /\ MoodIdle
    /\ SingleIdle
    /\ EstIdle
    /\ FastIdle
    /\ PeaksIdle
    /\ FramingIdle
    /\ FeatIdle
    /\ DownIdle
    /\ BatchIdle

SpecTempo == InitTempo /\ [][TempoNext]_vars

-----------------------------------------------------------------------------
(* combineBPMResultsAdvanced *)

CombineInit ==
    /\ combinePc = "call"
    /\ combineIn \in CombineInputs
    /\ combineOut = NoEstimate
    /\ tempoCategory = "none"

CombineCall ==
    /\ combinePc = "call"
    /\ combineOut' = combineBPMResultsAdvanced(combineIn.autocorr, combineIn.spectral,
                                               combineIn.energy, combineIn.histogram)
    /\ combinePc' = "done"
    /\ UNCHANGED <<combineIn, tempoCategory, otherThanCombine>>

\* tempoCategory: getTempoCategory(combinedBPM.bpm)
CombineCategorise ==
    /\ combinePc = "done"
    /\ tempoCategory' = getTempoCategory(combineOut.bpm)
    /\ combinePc' = "labelled"
    /\ UNCHANGED <<combineIn, combineOut, otherThanCombine>>

CombineNext ==
    \/ CombineCall
    \/ CombineCategorise

InitCombine == SrvIdle /\ PipeIdle /\ TempoIdle /\ CombineInit /\ DanceIdle /\ MoodIdle
    /\ SingleIdle
    /\ EstIdle
    /\ FastIdle
    /\ PeaksIdle
    /\ FramingIdle
    /\ FeatIdle
    /\ DownIdle
    /\ BatchIdle

SpecCombine == InitCombine /\ [][CombineNext]_vars

-----------------------------------------------------------------------------
(* The score of analyzeDanceabilityAdvanced, and its response to a raise of *)
(* rhythm strength or beat consistency                                      *)

ResultFor(metrics) ==
    DanceabilityResult(metrics.rhythmStrength, metrics.beatConsistency,
                       metrics.energyDistribution, metrics.tempoStability,
                       metrics.syncopation, metrics.grooveFactor)

DanceInit ==
    /\ dancePc = "call"
    /\ danceIn \in DanceInputs
    /\ danceOut = NoResult
    /\ dancePrev = NoResult

DanceCall ==
    /\ dancePc = "call"
    /\ danceOut' = ResultFor(danceIn)
    /\ dancePc' = "done"
    /\ UNCHANGED <<danceIn, dancePrev, otherThanDance>>

\* The result for a buffer that differs in rhythm strength only, upwards.
DanceRaiseRhythm ==
    /\ dancePc \in {"done", "raised"}
    /\ \E raised \in GridRatios :
          /\ Gt(raised, danceIn.rhythmStrength)
          /\ danceIn' = [danceIn EXCEPT !.rhythmStrength = raised]
          /\ danceOut' = ResultFor([danceIn EXCEPT !.rhythmStrength = raised])
    /\ dancePrev' = danceOut
    /\ dancePc' = "raised"
    /\ UNCHANGED otherThanDance

\* The result for a buffer that differs in beat consistency only, upwards.
DanceRaiseBeat ==
    /\ dancePc \in {"done", "raised"}
    /\ \E raised \in GridRatios :
          /\ Gt(raised, danceIn.beatConsistency)
          /\ danceIn' = [danceIn EXCEPT !.beatConsistency = raised]
          /\ danceOut' = ResultFor([danceIn EXCEPT !.beatConsistency = raised])
    /\ dancePrev' = danceOut
    /\ dancePc' = "raised"
    /\ UNCHANGED otherThanDance

DanceNext ==
    \/ DanceCall
    \/ DanceRaiseRhythm
    \/ DanceRaiseBeat

InitDance == SrvIdle /\ PipeIdle /\ TempoIdle /\ CombineIdle /\ DanceInit /\ MoodIdle
    /\ SingleIdle
    /\ EstIdle
    /\ FastIdle
    /\ PeaksIdle
    /\ FramingIdle
    /\ FeatIdle
    /\ DownIdle
    /\ BatchIdle

SpecDance == InitDance /\ [][DanceNext]_vars

-----------------------------------------------------------------------------
(* determineDetailedMood *)

MoodInit ==
    /\ moodPc = "call"
    /\ moodIn \in MoodInputs
    /\ moodOut = NoMood

MoodCall ==
    /\ moodPc = "call"
    /\ moodOut' = determineDetailedMood(moodIn.spectralCentroid, moodIn.zeroCrossingRate,
                                        moodIn.energyDistribution, moodIn.spectralRolloff,
                                        moodIn.tempoInfluence)
    /\ moodPc' = "done"
    /\ UNCHANGED <<moodIn, otherThanMood>>

MoodNext == MoodCall

InitMood == SrvIdle /\ PipeIdle /\ TempoIdle /\ CombineIdle /\ DanceIdle /\ MoodInit
    /\ SingleIdle
    /\ EstIdle
    /\ FastIdle
    /\ PeaksIdle
    /\ FramingIdle
    /\ FeatIdle
    /\ DownIdle
    /\ BatchIdle

SpecMood == InitMood /\ [][MoodNext]_vars

-----------------------------------------------------------------------------
(* Properties.  Numbers are compared on their fractions <<n, d>> directly,  *)
(* not through the operators of the model.                                  *)

\* x is a number (not NaN, not an infinity) and x > n / d, x < n / d,
\* n / d <= x <= m / d, for d > 0.
Above(x, n, d) == x[2] > 0 /\ x[1] * d > n * x[2]
Below(x, n, d) == x[2] > 0 /\ x[1] * d < n * x[2]
Within(x, n, m, d) == x[2] > 0 /\ n * x[2] <= x[1] * d /\ x[1] * d <= m * x[2]

\* a and b are numbers and a < b.
Less(a, b) == a[2] > 0 /\ b[2] > 0 /\ a[1] * b[2] < b[1] * a[2]

(* POST /api/analyze-multiple *)

\* The entry reports the file, with exactly one of analysis and error: error
\* when the file's bytes are not whole 32-bit words, analysis otherwise.
EntryReports(entry, file) ==
    /\ entry.fileName = file.originalname
    /\ entry.fileSize = file.size
    /\ ("analysis" \in DOMAIN entry) # ("error" \in DOMAIN entry)
    /\ ("error" \in DOMAIN entry) = (file.size % 4 # 0)

\* C1: the response to an upload of one or more files has status 200, success
\* true, totalFiles equal to the number of uploaded files, and one entry per
\* file in upload order, each with either analysis or error; a file whose
\* analysis throws gets an error entry and the files after it are analysed.
BatchReportsEveryFile ==
    (srvPc = "responded" /\ reqFiles # <<>>) =>
        /\ response.status = 200
        /\ response.body.success = TRUE
        /\ response.body.totalFiles = Len(reqFiles)
        /\ Len(response.body.results) = Len(reqFiles)
        /\ \A k \in DOMAIN reqFiles : EntryReports(response.body.results[k], reqFiles[k])

\* A response whose first file failed and whose second file was analysed.
BatchFailedThenAnalysed ==
    /\ srvPc = "responded"
    /\ Len(reqFiles) = 2
    /\ response.status = 200
    /\ "error" \in DOMAIN response.body.results[1]
    /\ "analysis" \in DOMAIN response.body.results[2]

(* analyzeAudioBuffer on silence and on buffers shorter than a frame *)

\* The buffer analysed is all zeros, or shorter than the shortest frame (25 ms).
SilentOrShort ==
    Len(downsampledData) <= MsToSamples(25, 11025) \/ IsSilent(downsampledData)

\* C2: for a silent buffer and for a buffer too short for one frame the
\* result has bpm 120, confidence 0, danceability score 0, primary mood
\* Neutral, and numbers only (no NaN, no infinity) in bpm, confidence, score
\* and the six sub-metrics.
SilenceGivesDefaults ==
    (pipePc = "returned" /\ SilentOrShort) =>
        /\ pipeResult.value.bpm.bpm = I(120)
        /\ pipeResult.value.bpm.confidence = I(0)
        /\ pipeResult.value.danceability.score = I(0)
        /\ pipeResult.value.mood.primaryMood = "Neutral"
        /\ \A x \in {pipeResult.value.danceability.rhythmStrength,
                      pipeResult.value.danceability.beatConsistency,
                      pipeResult.value.danceability.energyDistribution,
                      pipeResult.value.danceability.tempoStability,
                      pipeResult.value.danceability.syncopation,
                      pipeResult.value.danceability.grooveFactor,
                      pipeResult.value.danceability.confidence,
                      pipeResult.value.mood.confidence} : x[2] > 0

\* C7: the danceability score lies in [0,100] and each of the six reported
\* sub-metrics in [0,1], for every buffer.
DanceabilityInRange ==
    pipePc \in {"mood", "return", "returned"} =>
        /\ Within(danceabilityAnalysis.score, 0, 100, 1)
        /\ \A x \in {danceabilityAnalysis.rhythmStrength,
                      danceabilityAnalysis.beatConsistency,
                      danceabilityAnalysis.energyDistribution,
                      danceabilityAnalysis.tempoStability,
                      danceabilityAnalysis.syncopation,
                      danceabilityAnalysis.grooveFactor} : Within(x, 0, 1, 1)

(* The tempo estimators *)

\* C3: every method returns a tempo in [60,200] and a confidence in [0,1].
EstimateInRange ==
    tempoCall # NoCall =>
        /\ Within(tempoOut.bpm, 60, 200, 1)
        /\ Within(tempoOut.confidence, 0, 1, 1)

\* C4: a method whose candidate list is empty returns tempo 120 with
\* confidence exactly 0.
NoCandidateGivesZeroConfidence ==
    (tempoCall # NoCall /\ tempoTrace.bpms = 0) =>
        /\ tempoOut.bpm = I(120)
        /\ tempoOut.confidence = I(0)

(* combineBPMResultsAdvanced *)

\* 10 * (0.4*xa + 0.3*xs + 0.2*xe + 0.1*xh) as the fraction
\* TenthsNumerator / CommonDenominator, for fractions xa, xs, xe, xh.
TenthsNumerator(xa, xs, xe, xh) ==
    4 * xa[1] * xs[2] * xe[2] * xh[2] + 3 * xs[1] * xa[2] * xe[2] * xh[2]
        + 2 * xe[1] * xa[2] * xs[2] * xh[2] + xh[1] * xa[2] * xs[2] * xe[2]

CommonDenominator(xa, xs, xe, xh) == xa[2] * xs[2] * xe[2] * xh[2]

\* bpm * confidence of an estimate, as a fraction.
Voted(estimate) == <<estimate.bpm[1] * estimate.confidence[1], estimate.confidence[2]>>

\* r is n / d rounded to the nearest integer, halves upwards (d > 0).
RoundsTo(r, n, d) == 2 * r * d - d <= 2 * n /\ 2 * n < 2 * r * d + d

\* The total weight 0.4 + 0.3 + 0.2 + 0.1, in tenths.
TotalWeightTenths == 4 + 3 + 2 + 1

CombinedAsWeighted(a, s, e, h, out) ==
    IF \A x \in {a, s, e, h} : x.confidence[2] > 0
    THEN /\ out.bpm[2] = 1
         /\ RoundsTo(out.bpm[1], TenthsNumerator(Voted(a), Voted(s), Voted(e), Voted(h)),
                     TotalWeightTenths * CommonDenominator(a.confidence, s.confidence,
                                                          e.confidence, h.confidence))
         /\ out.confidence[2] > 0
         /\ out.confidence[1] * TotalWeightTenths
                 * CommonDenominator(a.confidence, s.confidence, e.confidence, h.confidence)
             = TenthsNumerator(a.confidence, s.confidence, e.confidence, h.confidence)
                 * out.confidence[2]
         /\ Within(out.confidence, 0, 1, 1)
    ELSE out.bpm = NaN /\ out.confidence = NaN

\* C6: the combined bpm is round((0.4*a.bpm*a.conf + 0.3*s.bpm*s.conf
\* + 0.2*e.bpm*e.conf + 0.1*h.bpm*h.conf) / total weight), the combined
\* confidence is (0.4*a.conf + 0.3*s.conf + 0.2*e.conf + 0.1*h.conf) / total
\* weight, and the combined confidence lies in [0,1] when the four
\* confidences do; a NaN confidence makes both NaN.
CombineIsConfidenceWeightedAverage ==
    combinePc \in {"done", "labelled"} =>
        CombinedAsWeighted(combineIn.autocorr, combineIn.spectral, combineIn.energy,
                           combineIn.histogram, combineOut)

\* Four estimates that differ in tempo and in confidence, combined by their
\* confidences: 0.4*129*(1/2) + 0.3*200*1 + 0.2*60*0 + 0.1*200*(1/4) = 90.8.
CombineOfUnequalConfidences ==
    /\ combinePc = "done"
    /\ combineIn.autocorr = [bpm |-> I(129), confidence |-> Num(1, 2)]
    /\ combineIn.spectral = [bpm |-> I(200), confidence |-> I(1)]
    /\ combineIn.energy = [bpm |-> I(60), confidence |-> I(0)]
    /\ combineIn.histogram = [bpm |-> I(200), confidence |-> Num(1, 4)]
    /\ combineOut.bpm = I(91)
    /\ combineOut.confidence = Num(21, 40)

(* The danceability score *)

\* C8: with the other five sub-metrics held fixed, the score does not
\* decrease when rhythm strength is raised, nor when beat consistency is
\* raised, the clamp to [0,100] included.
ScoreNeverDropsWhenRaised ==
    dancePc = "raised" => ~Less(danceOut.score, dancePrev.score)

\* A raise that lifted the score, up to the clamp's upper end.
ScoreRaisedToClamp ==
    /\ dancePc = "raised"
    /\ Less(dancePrev.score, danceOut.score)
    /\ danceOut.score = I(100)

(* determineDetailedMood *)

HappyCondition(in) ==
    Above(in.spectralCentroid, 1500, 1) /\ Above(in.energyDistribution, 6, 10)

SadCondition(in) ==
    Below(in.spectralCentroid, 800, 1) /\ Below(in.energyDistribution, 4, 10)

RelaxedCondition(in) ==
    Below(in.zeroCrossingRate, 5, 100) /\ Below(in.energyDistribution, 5, 10)

AggressiveCondition(in) ==
    Above(in.zeroCrossingRate, 1, 10) /\ Above(in.spectralRolloff, 3000, 1)

\* The categories whose condition holds, in the order Happy, Sad, Relaxed,
\* Aggressive.
TriggeredOf(in) ==
    (IF HappyCondition(in) THEN <<"Happy">> ELSE <<>>)
        \o (IF SadCondition(in) THEN <<"Sad">> ELSE <<>>)
        \o (IF RelaxedCondition(in) THEN <<"Relaxed">> ELSE <<>>)
        \o (IF AggressiveCondition(in) THEN <<"Aggressive">> ELSE <<>>)

MoodsFollow(triggered, out) ==
    /\ out.primary = (IF Len(triggered) >= 1 THEN triggered[1] ELSE "Neutral")
    /\ out.secondary = (IF Len(triggered) >= 2 THEN triggered[2] ELSE "Balanced")
    /\ Len(out.explanation) = Len(triggered)

\* C9: Happy triggers iff centroid > 1500 and energy distribution > 0.6, Sad
\* iff centroid < 800 and energy distribution < 0.4, Relaxed iff zero-crossing
\* rate < 0.05 and energy distribution < 0.5, Aggressive iff zero-crossing
\* rate > 0.1 and rolloff > 3000; the primary mood is the first triggered
\* category in that order (Neutral if none), the secondary mood the second
\* (Balanced if fewer than two), and primary is Happy whenever the Happy
\* condition holds.
MoodFollowsThresholds ==
    moodPc = "done" =>
        /\ (moodOut.detailedAnalysis[2].score = "High") = HappyCondition(moodIn)
        /\ (moodOut.detailedAnalysis[3].score = "High") = SadCondition(moodIn)
        /\ (moodOut.detailedAnalysis[4].score = "High") = RelaxedCondition(moodIn)
        /\ (moodOut.detailedAnalysis[5].score = "High") = AggressiveCondition(moodIn)
        /\ MoodsFollow(TriggeredOf(moodIn), moodOut)
        /\ HappyCondition(moodIn) => moodOut.primary = "Happy"

\* Happy and Aggressive both triggered: Happy first, Aggressive second.
MoodHappyThenAggressive ==
    /\ moodPc = "done"
    /\ HappyCondition(moodIn)
    /\ AggressiveCondition(moodIn)
    /\ moodOut.primary = "Happy"
    /\ moodOut.secondary = "Aggressive"

\* The increments of the categories whose condition holds, in hundredths.
IncrementsOf(in) ==
    (IF HappyCondition(in) THEN 25 ELSE 0) + (IF SadCondition(in) THEN 25 ELSE 0)
        + (IF RelaxedCondition(in) THEN 20 ELSE 0)
        + (IF AggressiveCondition(in) THEN 20 ELSE 0)

ConfidenceIs(confidence, hundredths) ==
    confidence[2] > 0 /\ confidence[1] * 100 = hundredths * confidence[2]

\* C10: the mood confidence is the sum of the increments of exactly the
\* triggered categories (Happy 0.25, Sad 0.25, Relaxed 0.2, Aggressive 0.2)
\* capped at 1.0; it is 0 exactly when the primary mood is Neutral, and at
\* least 0.25 whenever Happy is triggered.
MoodConfidenceSumsIncrements ==
    moodPc = "done" =>
        /\ ConfidenceIs(moodOut.confidence,
                        IF IncrementsOf(moodIn) > 100 THEN 100 ELSE IncrementsOf(moodIn))
        /\ (moodOut.confidence = I(0)) = (moodOut.primary = "Neutral")
        /\ HappyCondition(moodIn) => ~Below(moodOut.confidence, 25, 100)

\* Sad and Relaxed both triggered: confidence 0.25 + 0.2.
MoodConfidenceOfTwoCategories ==
    /\ moodPc = "done"
    /\ moodOut.primary = "Sad"
    /\ moodOut.secondary = "Relaxed"
    /\ moodOut.confidence = Num(45, 100)

\* The type tags of the detailed breakdown, in the order they are pushed.
CategoryOrder ==
    <<"Danceability", "Happy", "Sad", "Relaxed", "Aggressiveness", "Engagement",
      "Approachability">>

\* The explanation pushed together with each boolean category's mood: the
\* category triggered iff its explanation is in the result.
ExplanationOf ==
    [Happy |-> "High brightness and energy create positive mood",
     Sad |-> "Low brightness and energy indicate somber mood",
     Relaxed |-> "Low complexity and energy create calm feeling",
     Aggressiveness |-> "High complexity and high frequencies suggest aggression"]

WasTriggered(category, out) ==
    \E k \in DOMAIN out.explanation : out.explanation[k] = ExplanationOf[category]

\* C11: for every combination of inputs the detailed breakdown has exactly
\* seven entries, one per category in the order Danceability, Happy, Sad,
\* Relaxed, Aggressiveness, Engagement, Approachability, each scored High,
\* Medium or Low; a boolean category is scored High iff it was triggered.
BreakdownHasSevenEntries ==
    moodPc = "done" =>
        /\ Len(moodOut.detailedAnalysis) = 7
        /\ \A k \in 1..7 :
              /\ moodOut.detailedAnalysis[k].type = CategoryOrder[k]
              /\ moodOut.detailedAnalysis[k].score \in {"High", "Medium", "Low"}
        /\ \A k \in 2..5 :
              (moodOut.detailedAnalysis[k].score = "High")
                  = WasTriggered(CategoryOrder[k], moodOut)

\* No mood triggered on a centroid below 800 (the energy distribution being
\* NaN), the continuous categories Low: the breakdown is still complete.
BreakdownOfNeutralDarkSound ==
    /\ moodPc = "done"
    /\ moodIn.energyDistribution = NaN
    /\ Below(moodIn.spectralCentroid, 800, 1)
    /\ moodOut.primary = "Neutral"
    /\ moodOut.detailedAnalysis[1].score = "Low"
    /\ moodOut.detailedAnalysis[3].score = "Medium"
    /\ Len(moodOut.detailedAnalysis) = 7

(* getTempoCategory *)

\* The label of the band a BPM value lies in: Larghissimo below 60, Largo
\* below 66, Adagio below 76, Andante below 108, Moderato below 120, Allegro
\* below 168, Presto below 200, Prestissimo from 200 on.  A value that is
\* not a number lies in no band.
BandOf(bpm) ==
    IF bpm[2] \leq 0 /\ bpm # Infinity THEN "no band"
    ELSE IF Below(bpm, 60, 1) THEN "Larghissimo"
    ELSE IF Below(bpm, 66, 1) THEN "Largo"
    ELSE IF Below(bpm, 76, 1) THEN "Adagio"
    ELSE IF Below(bpm, 108, 1) THEN "Andante"
    ELSE IF Below(bpm, 120, 1) THEN "Moderato"
    ELSE IF Below(bpm, 168, 1) THEN "Allegro"
    ELSE IF Below(bpm, 200, 1) THEN "Presto"
    ELSE "Prestissimo"

TempoLabels ==
    <<"Larghissimo", "Largo", "Adagio", "Andante", "Moderato", "Allegro", "Presto",
      "Prestissimo">>

RankOf(label) == CHOOSE k \in DOMAIN TempoLabels : TempoLabels[k] = label

\* C12: every BPM value the combiner produces gets the label of its band
\* (Larghissimo < 60, Largo < 66, Adagio < 76, Andante < 108, Moderato < 120,
\* Allegro < 168, Presto < 200, Prestissimo from 200 on), and the label order
\* is monotone in BPM.
TempoLabelFollowsBands ==
    combinePc = "labelled" =>
        /\ tempoCategory = BandOf(combineOut.bpm)
        /\ \A bpm \in 0..209 :
              RankOf(getTempoCategory(I(bpm))) <= RankOf(getTempoCategory(I(bpm + 1)))

(* Danceability category and type tags *)

\* The category of a reported score (the 0-1 score times 100, clamped to
\* [0,100]): the thresholds 0.8, 0.6, 0.4, 0.2 on the 0-1 score are 80, 60,
\* 40, 20 on the reported one.
CategoryOfReported(score) ==
    IF Above(score, 80, 1) THEN "Very Danceable"
    ELSE IF Above(score, 60, 1) THEN "Danceable"
    ELSE IF Above(score, 40, 1) THEN "Moderately Danceable"
    ELSE IF Above(score, 20, 1) THEN "Slightly Danceable"
    ELSE "Not Danceable"

HasTag(types, tag) == \E k \in DOMAIN types : k > 1 /\ types[k] = tag

\* C13: category follows the 0-1 score by the thresholds Very Danceable
\* (> 0.8), Danceable (> 0.6), Moderately Danceable (> 0.4), Slightly
\* Danceable (> 0.2), else Not Danceable; the first element of type names the
\* same category; Strong Rhythm is present iff rhythmStrength > 0.7 and
\* Consistent Beat iff beatConsistency > 0.7.
CategoryAndTagsFollowThresholds ==
    dancePc \in {"done", "raised"} =>
        /\ danceOut.category = CategoryOfReported(danceOut.score)
        /\ danceOut.type[1] = danceOut.category
        /\ HasTag(danceOut.type, "Strong Rhythm") = Above(danceIn.rhythmStrength, 7, 10)
        /\ HasTag(danceOut.type, "Consistent Beat") = Above(danceIn.beatConsistency, 7, 10)
        /\ Len(danceOut.type) = 1 + (IF Above(danceIn.rhythmStrength, 7, 10) THEN 1 ELSE 0)
                                   + (IF Above(danceIn.beatConsistency, 7, 10) THEN 1 ELSE 0)

\* A score of exactly 80, at the Very Danceable threshold, with both tags.
DanceableAtThresholdWithBothTags ==
    /\ dancePc \in {"done", "raised"}
    /\ danceOut.score = I(80)
    /\ danceOut.category = "Danceable"
    /\ danceOut.type = <<"Danceable", "Strong Rhythm", "Consistent Beat">>

(* POST /api/analyze *)

\* The JSON error body { success: false, error } with a non-empty message.
IsErrorBody(resp) ==
    /\ "body" \in DOMAIN resp
    /\ DOMAIN resp.body = {"success", "error"}
    /\ resp.body.success = FALSE
    /\ resp.body.error # ""

\* C14: the request gets exactly one response: 400 with { success: false,
\* error } when no file is provided or the uploaded file is not of an audio
\* type, 500 with { success: false, error } when the analysis throws, and
\* 200 with success true and the analysis otherwise.
SingleAnswersWithDocumentedStatus ==
    singlePc = "responded" =>
        /\ singleSent = 1
        /\ IF upload = <<>> \/ upload[1].mimetype[1] # "audio"
           THEN singleResponse.status = 400 /\ IsErrorBody(singleResponse)
           ELSE IF upload[1].file.size % 4 # 0
           THEN singleResponse.status = 500 /\ IsErrorBody(singleResponse)
           ELSE /\ singleResponse.status = 200
                /\ singleResponse.body.success = TRUE
                /\ "analysis" \in DOMAIN singleResponse.body

(* The shared buffer *)

WorkerResultMatchesMainThread ==
    analysisWorker =>
        /\ fastResults.bpm # NoResult
               => fastResults.bpm = analyzeBPMAdvanced(fastData, 11025)
        /\ fastResults.danceability # NoResult
               => fastResults.danceability = analyzeDanceabilityAdvanced(fastData, 11025)
        /\ fastResults.mood # NoResult
               => fastResults.mood = MoodOnMainThread(fastData, 11025)

(* Peak detection.  The signals are integer valued; with n samples of sum  *)
(* S and sum of squares Q the variance is (n Q - S S) / (n n), so a test   *)
(* against a multiple of the standard deviation is a test on integers.     *)

SamplesOf(data) == Array([k \in DOMAIN data |-> data[k][1]])

\* n * n * variance
ScaledVariance(x) ==
    Len(x) * IntSumRange(Array([k \in DOMAIN x |-> x[k] * x[k]]), 1, Len(x))
    - IntSumRange(x, 1, Len(x)) * IntSumRange(x, 1, Len(x))

\* x[i] > mean + 1.2 * std, for the 1-based position i.
AboveThreshold(x, i) ==
    /\ Len(x) * x[i] > IntSumRange(x, 1, Len(x))
    /\ 100 * (Len(x) * x[i] - IntSumRange(x, 1, Len(x)))
            * (Len(x) * x[i] - IntSumRange(x, 1, Len(x)))
       > 144 * ScaledVariance(x)

\* Least of x[lo..hi], a non-empty range of positions.
LeastOf(x, lo, hi) == CHOOSE v \in {x[k] : k \in lo..hi} : \A k \in lo..hi : v <= x[k]

\* Value minus the larger of the least of the up to 5 samples before and
\* the least of the up to 5 samples after, for an interior position i.
ProminenceAt(x, i) ==
    LET Larger(a, b) == IF a > b THEN a ELSE b
    IN x[i] - Larger(LeastOf(x, IF i - 5 > 1 THEN i - 5 ELSE 1, i - 1),
                     LeastOf(x, i + 1, IF i + 5 < Len(x) THEN i + 5 ELSE Len(x)))

\* The 1-based interior positions that pass the three tests.
SignificantMaxima(x) ==
    {i \in 2..(Len(x) - 1) :
        /\ AboveThreshold(x, i)
        /\ x[i] > x[i - 1]
        /\ x[i] > x[i + 1]
        /\ ProminenceAt(x, i) > 0
        /\ 4 * Len(x) * Len(x) * ProminenceAt(x, i) * ProminenceAt(x, i)
           > ScaledVariance(x)}

\* C17: findPeaksAdvanced returns, in strictly ascending order, exactly the
\* interior indices whose value exceeds mean + 1.2 std, is strictly above
\* both neighbours and has prominence above 0.5 std; nothing for the empty
\* signal.
PeaksAreTheSignificantMaxima ==
    "advanced" \in peaksDone =>
        /\ \A k \in 1..(Len(peaksAdvanced) - 1) : peaksAdvanced[k] < peaksAdvanced[k + 1]
        /\ {peaksAdvanced[k] + 1 : k \in DOMAIN peaksAdvanced}
           = SignificantMaxima(SamplesOf(peakData))
        /\ peakData = <<>> => peaksAdvanced = <<>>

\* The rise of 1 at the end of the high region was a candidate and was
\* dropped for its prominence.
PeaksDroppedRippleOnPlateau ==
    /\ "advanced" \in peaksDone
    /\ peakData = Pulses(20, {8}, <<8, 8, 8, 8, 8, 9>>)
    /\ peaksAdvanced = <<>>

\* The 1-based positions above the least value of the signal.
PlantedOf(x) == {i \in DOMAIN x : x[i] > LeastOf(x, 1, Len(x))}

\* A flat baseline with single-sample peaks more than 10 samples apart,
\* each at least 5 standard deviations above the baseline.
IsPlantedSignal(x) ==
    /\ x # <<>>
    /\ PlantedOf(x) # {}
    /\ \A i \in PlantedOf(x), j \in PlantedOf(x) : i < j => j - i > 10
    /\ \A i \in PlantedOf(x) :
           Len(x) * Len(x) * (x[i] - LeastOf(x, 1, Len(x))) * (x[i] - LeastOf(x, 1, Len(x)))
           >= 25 * ScaledVariance(x)

IsConstantSignal(x) == \A i \in DOMAIN x : x[i] = x[1]

ReportedOf(peaks) == {peaks[k] + 1 : k \in DOMAIN peaks}

\* C18 as stated: no peak on a constant signal, and on a planted signal
\* every planted peak and nothing else.
PlantedPeaksAllReported ==
    "advanced" \in peaksDone =>
        /\ IsConstantSignal(SamplesOf(peakData)) => peaksAdvanced = <<>>
        /\ IsPlantedSignal(SamplesOf(peakData))
               => ReportedOf(peaksAdvanced) = PlantedOf(SamplesOf(peakData))

\* C18, amended: no peak on a constant signal, and on a planted signal
\* every planted peak that is neither the first nor the last sample, and
\* nothing else.
InteriorPlantedPeaksAllReported ==
    "advanced" \in peaksDone =>
        /\ IsConstantSignal(SamplesOf(peakData)) => peaksAdvanced = <<>>
        /\ IsPlantedSignal(SamplesOf(peakData))
               => ReportedOf(peaksAdvanced)
                  = PlantedOf(SamplesOf(peakData)) \cap 2..(Len(peakData) - 1)

\* A peak planted on the first sample and one on the fourteenth: the second
\* alone was reported.
PlantedAtTheEdgeAndInside ==
    /\ "advanced" \in peaksDone
    /\ IsPlantedSignal(SamplesOf(peakData))
    /\ PlantedOf(SamplesOf(peakData)) = {1, 14}
    /\ peaksAdvanced = <<13>>

\* C19: once both detectors have run on a signal, every index reported by
\* findPeaksAdvanced is among those reported by findPeaksFast.
FastReportsEveryAdvancedPeak ==
    peaksDone = {"advanced", "fast"} => ReportedOf(peaksAdvanced) \subseteq ReportedOf(peaksFast)

(* Framing *)

\* The offsets 0, H, 2H, ... with offset + N <= L.
FittingOffsets(length, frameSize, hopSize) ==
    {o \in 0..length : o % hopSize = 0 /\ o + frameSize <= length}

\* C20: the loop produces exactly the frames at the offsets 0, H, 2H, ...
\* with offset + N <= L, in that order, each of N samples; a buffer of
\* exactly N samples gives one frame.
FramesCoverEveryFittingOffset ==
    framePc = "done" =>
        /\ Len(framesPushed)
           = Cardinality(FittingOffsets(Len(frameArgs.audioData), frameArgs.frameSize,
                                        frameArgs.hopSize))
        /\ \A k \in DOMAIN framesPushed :
               /\ Len(framesPushed[k]) = frameArgs.frameSize
               /\ framesPushed[k][1] = (k - 1) * frameArgs.hopSize
        /\ Len(frameArgs.audioData) = frameArgs.frameSize => Len(framesPushed) = 1

(* Feature extractors *)

\* Math.max(1, Math.floor(L / 5000))
StrideOf(length) == IF length \div 5000 > 1 THEN length \div 5000 ELSE 1

\* The sampled points: the 1-based positions of the indices 0, step, ...
SampledPoints(length) == {i \in 1..length : (i - 1) % StrideOf(length) = 0}

\* The sampled points whose sign differs from the sampled point before.
SignChanges(x) ==
    {i \in SampledPoints(Len(x)) \ {1} :
        (x[i] >= 0) # (x[i - StrideOf(Len(x))] >= 0)}

\* C21: the rate is the number of sign changes between consecutive sampled
\* points divided by the number of comparisons made, lies in [0, 1], and is
\* exactly 1 when the sampled points strictly alternate in sign.
ZeroCrossingRateIsShareOfComparisons ==
    "zeroCrossingRate" \in featDone =>
        /\ Within(featOut.zeroCrossingRate, 0, 1, 1)
        /\ Cardinality(SampledPoints(Len(featCall.audioData))) > 1
               => featOut.zeroCrossingRate
                  = Num(Cardinality(SignChanges(featCall.audioData)),
                        Cardinality(SampledPoints(Len(featCall.audioData))) - 1)
        /\ /\ Cardinality(SampledPoints(Len(featCall.audioData))) > 1
           /\ SignChanges(featCall.audioData) = SampledPoints(Len(featCall.audioData)) \ {1}
           => featOut.zeroCrossingRate = I(1)

(* Downsampling *)

\* C22: with ratio r = originalSampleRate / targetSampleRate >= 1 the loop
\* returns ceil(L / r) samples, the k-th being input[floor(k * r)], reads no
\* index outside the input, and returns the input when the rates are equal.
DownsampleTakesEveryRatioThSample ==
    downPc = "done" =>
        /\ Len(downPushed)
           = (Len(downArgs.audioData) * downArgs.targetSampleRate
              + downArgs.originalSampleRate - 1) \div downArgs.originalSampleRate
        /\ \A k \in DOMAIN downPushed :
               downPushed[k]
               = ((k - 1) * downArgs.originalSampleRate) \div downArgs.targetSampleRate
        /\ downArgs.originalSampleRate = downArgs.targetSampleRate
               => downPushed = downArgs.audioData

(* Tempo stability and tempo influence *)

\* C23: for every buffer and sample rate calculateTempoInfluenceAdvanced
\* returns the value calculateTempoStabilityAdvanced returns.
TempoInfluenceEqualsTempoStability ==
    {"tempoStability", "tempoInfluence"} \subseteq featDone
        => featOut.tempoInfluence = featOut.tempoStability

(* Rhythm strength *)

\* sqrt(sum of squares / frameSize) of the 25 ms frames of a buffer
RmsEnergies(audioData, sampleRate) ==
    LET Of(frames, frameSize) ==
            Array([k \in DOMAIN frames |->
                      MathSqrt(Div(SumOfSquares(frames[k]), I(frameSize)))])
        With(frameSize) == Of(Frames(audioData, 0, frameSize, frameSize), frameSize)
    IN With(MsToSamples(25, sampleRate))

NormalizedVariance(energies) == Div(Variance(energies), Mul(Mean(energies), Mean(energies)))

ClampToUnit(x) == MathMax(I(0), MathMin(I(1), x))

\* C24: rhythm strength is the average of the normalized variance of the
\* frame RMS energies and the average low-band spectral energy, each clamped
\* to [0, 1] before the two are averaged.
RhythmStrengthAveragesClampedTerms ==
    "rhythmStrength" \in featDone
        => featOut.rhythmStrength
           = Div(Add(ClampToUnit(NormalizedVariance(RmsEnergies(featCall.audioData,
                                                                featCall.sampleRate))),
                     ClampToUnit(analyzeRhythmFrequencyAdvanced(featCall.audioData,
                                                                featCall.sampleRate))),
                 I(2))

(* The combination as an average *)

MethodEstimates == <<combineIn.autocorr, combineIn.spectral, combineIn.energy, combineIn.histogram>>

\* C25: when the four methods report the same BPM with confidences in (0, 1]
\* the combined BPM is that BPM, and in general the combined BPM lies between
\* the smallest and the largest of the four method BPMs.
CombinedBpmIsAnAverage ==
    combinePc \in {"done", "labelled"} =>
        /\ \A b \in {MethodEstimates[1].bpm} :
               (\A m \in 1..4 : /\ MethodEstimates[m].bpm = b
                                 /\ Gt(MethodEstimates[m].confidence, I(0))
                                 /\ Le(MethodEstimates[m].confidence, I(1)))
                   => combineOut.bpm = b
        /\ \E lo \in 1..4 : Le(MethodEstimates[lo].bpm, combineOut.bpm)
        /\ \E hi \in 1..4 : Le(combineOut.bpm, MethodEstimates[hi].bpm)

(* The boolean mood categories together *)

\* The category whose explanation is the text has triggered.
Explained(text) == \E k \in DOMAIN moodOut.explanation : moodOut.explanation[k] = text

HappyExplained == Explained("High brightness and energy create positive mood")

SadExplained == Explained("Low brightness and energy indicate somber mood")

RelaxedExplained == Explained("Low complexity and energy create calm feeling")

AggressiveExplained == Explained("High complexity and high frequencies suggest aggression")

\* C26: at most two of the four boolean categories trigger: Happy excludes
\* Sad and Relaxed, Relaxed excludes Aggressive; the confidence is 0, 0.2,
\* 0.25 or 0.45 and never reaches the cap of 1.
AtMostTwoMoodsTrigger ==
    moodPc = "done" =>
        /\ Len(moodOut.explanation) <= 2
        /\ HappyExplained => ~SadExplained /\ ~RelaxedExplained
        /\ RelaxedExplained => ~AggressiveExplained
        /\ moodOut.confidence \in {<<0, 1>>, <<1, 5>>, <<1, 4>>, <<9, 20>>}

\* Sad and Aggressive trigger together on a dark, low-energy sound with many
\* zero crossings and a rolloff above 3000.
SadAndAggressiveTogether ==
    /\ moodPc = "done"
    /\ Below(moodIn.spectralCentroid, 800, 1)
    /\ Below(moodIn.energyDistribution, 4, 10)
    /\ Above(moodIn.zeroCrossingRate, 1, 10)
    /\ Above(moodIn.spectralRolloff, 3000, 1)
    /\ SadExplained
    /\ AggressiveExplained
    /\ moodOut.confidence = <<9, 20>>

(* Spectral rolloff *)

\* C27: the rolloff does not depend on the sample values: it is
\* floor(512 * 0.85) * sampleRate / 1024 when the loop takes a frame and 0
\* when it takes none; at 11025 Hz it is above 3000, so with a frame
\* Aggressive triggers exactly when the zero-crossing rate is above 0.1.
\* The loop takes a frame when the buffer has more than 1024 samples.
RolloffDependsOnLengthAndRateOnly ==
    /\ "spectralRolloff" \in featDone
           => featOut.spectralRolloff
              = IF Len(featCall.audioData) > 1024
                THEN Num(435 * featCall.sampleRate, 1024)
                ELSE <<0, 1>>
    /\ "aggressive" \in featDone /\ featCall.sampleRate = 11025
           /\ Len(featCall.audioData) > 1024
           => /\ Above(featOut.spectralRolloff, 3000, 1)
              /\ featOut.aggressive <=> Above(featOut.zeroCrossingRate, 1, 10)

\* Two frames of a buffer that changes sign after every 9 samples: the
\* rolloff is 435 * 11025 / 1024 and Aggressive has triggered.
RolloffOfSignChangingFrames ==
    /\ featCall.kind = "rolloff"
    /\ featCall.sampleRate = 11025
    /\ featCall.audioData = Alternating(2049, 9)
    /\ "aggressive" \in featDone
    /\ featOut.spectralRolloff = <<4795875, 1024>>
    /\ Above(featOut.zeroCrossingRate, 1, 10)
    /\ featOut.aggressive

(* The mode of the histogram *)

\* The candidates the called method builds its histogram from.
HistogramCandidates ==
    IF tempoCall.method = "autocorr"
    THEN CandidateBpms(AutocorrPeakIntervals(tempoCall.input, 11025), 512, 11025)
    ELSE CandidateBpms(PeakIntervals(findPeaksAdvanced(tempoCall.input)),
                       MsToSamples(25, 11025), 11025)

\* b is the smallest of the keys with the highest count.
SmallestMostFrequent(hist, b) ==
    /\ b \in DOMAIN hist
    /\ \A o \in DOMAIN hist : hist[o] < hist[b] \/ (hist[o] = hist[b] /\ b <= o)

\* C28: in the autocorrelation and histogram methods the smallest of the
\* rounded BPM values with the highest count is returned, and the returned
\* BPM occurs in the histogram unless the histogram is empty.
ModeIsSmallestMostFrequentBpm ==
    tempoCall.method \in {"autocorr", "histogram"} =>
        \A hist \in {BpmHistogram(HistogramCandidates)} :
            DOMAIN hist # {}
                => \E b \in DOMAIN hist :
                       tempoOut.bpm = <<b, 1>> /\ SmallestMostFrequent(hist, b)

\* Two rounded values share the highest count and the smaller is returned,
\* though the larger was counted first.
ModeOfTiedHistogram ==
    /\ tempoCall.method = "histogram"
    /\ \A hist \in {BpmHistogram(HistogramCandidates)} :
           /\ DOMAIN hist = {109, 115}
           /\ hist[109] = hist[115]
           /\ MathRound(HistogramCandidates[1])[1] = 115
    /\ tempoOut.bpm = <<109, 1>>

-----------------------------------------------------------------------------
(* The browser page: the selection, the analyze button and analyzeAllAudio *)
(* A step is one task of the event loop: a handler runs up to its next     *)
(* await on a timer, a file read, a decode or a worker reply.              *)

\* allResults.push(results) or the entry of the catch block, for one file.
BatchEntry(file, error) == [fileName |-> file, error |-> error]

\* audioFiles.splice(index, 1), index counted from 0.
SpliceOne(files, index) == [k \in 1..(Len(files) - 1) |-> IF k <= index THEN files[k] ELSE files[k + 1]]

\* The files the next choice adds: File objects not seen before.
ChosenFiles(n) == [k \in 1..n |-> filesChosen + k]

\* The condition of the early return of analyzeAllAudio.  audioContext is
\* set whenever the listeners are attached.
AnalyzeRefusedWhenEmpty == Len(audioFiles) = 0

AnalyzeRefused == Len(audioFiles) = 0 \/ isProcessing

\* The page after the load handler.  The markup decides whether the button
\* starts disabled, and initAnalysisWorker leaves analysisWorker null when
\* the browser has no Worker or creating it throws.
BatchInit ==
    /\ audioFiles = <<>>
    /\ filesChosen = 0
    /\ isProcessing = FALSE
    /\ analyzeBtnDisabled \in BOOLEAN
    /\ hasWorker \in BOOLEAN
    /\ runs = [r \in 1..MaxRuns |-> NoRun]
    /\ workerInbox = <<>>
    /\ workerOutbox = <<>>
    /\ onmessage = NoHandler
    /\ resultsContainer = <<>>
    /\ shownFor = NoDisplay
    /\ lastAlert = "none"

\* handleFileSelect or handleDrop with at least one audio file:
\* audioFiles = audioFiles.concat(files); updateFileList(); updateUploadArea()
BatchHandleAudioFiles ==
    \E n \in 1..2 :
        /\ filesChosen + n <= MaxChosen
        /\ audioFiles' = audioFiles \o ChosenFiles(n)
        /\ filesChosen' = filesChosen + n
        /\ analyzeBtnDisabled' = FALSE
        /\ UNCHANGED <<isProcessing, hasWorker, runs, workerInbox, workerOutbox, onmessage, resultsContainer, shownFor, lastAlert, otherThanBatch>>

\* A Remove button of the rendered list: removeFile(index)
BatchRemoveFile ==
    \E index \in 0..(Len(audioFiles) - 1) :
        /\ audioFiles' = SpliceOne(audioFiles, index)
        /\ analyzeBtnDisabled' = (Len(audioFiles) = 1)
        /\ UNCHANGED <<filesChosen, isProcessing, hasWorker, runs, workerInbox, workerOutbox, onmessage, resultsContainer, shownFor, lastAlert, otherThanBatch>>

\* A click on the enabled button that the first if of analyzeAllAudio turns away.
BatchClickRefused ==
    /\ ~analyzeBtnDisabled
    /\ AnalyzeRefused
    /\ lastAlert' = IF isProcessing THEN "Analysis is already in progress. Please wait..."
                                    ELSE "Please select audio files first."
    /\ UNCHANGED <<audioFiles, filesChosen, isProcessing, analyzeBtnDisabled, hasWorker, runs, workerInbox, workerOutbox, onmessage, resultsContainer, shownFor, otherThanBatch>>

\* A click that starts a run: up to the first await of the loop.
BatchAnalyzeAllAudio ==
    /\ ~analyzeBtnDisabled
    /\ ~AnalyzeRefused
    /\ \E r \in 1..MaxRuns :
           /\ runs[r].pc = "none"
           /\ \A q \in 1..(r - 1) : runs[q].pc # "none"
           /\ runs' = [runs EXCEPT ![r] = [pc |-> "tick", i |-> 0, file |-> audioFiles[1], allResults |-> <<>>, selection |-> audioFiles]]
    /\ isProcessing' = TRUE
    /\ analyzeBtnDisabled' = TRUE
    /\ UNCHANGED <<audioFiles, filesChosen, hasWorker, workerInbox, workerOutbox, onmessage, resultsContainer, shownFor, lastAlert, otherThanBatch>>

\* The end of one pass of the for loop of run r, after the entry is pushed:
\* i++, the test i < audioFiles.length on the array as it is now, and either
\* the next file up to its first await or displayAdvancedResults and the
\* finally block.  displayAdvancedResults renders `shown` entries; fewer than
\* all of them when rendering an entry throws.
LoopTail(r, entry, shown) ==
    LET results == Append(runs[r].allResults, entry)
        i == runs[r].i + 1
    IN  IF i < Len(audioFiles)
        THEN /\ shown = Len(results)
             /\ runs' = [runs EXCEPT ![r] = [pc |-> "tick", i |-> i, file |-> audioFiles[i + 1], allResults |-> results, selection |-> runs[r].selection]]
             /\ UNCHANGED <<isProcessing, analyzeBtnDisabled, resultsContainer, shownFor, lastAlert>>
        ELSE /\ resultsContainer' = SubSeq(results, 1, shown)
             /\ shownFor' = [selection |-> runs[r].selection, rendered |-> shown = Len(results)]
             /\ lastAlert' = IF shown < Len(results)
                             THEN "Error analyzing audio files. Please try again."
                             ELSE lastAlert
             /\ isProcessing' = FALSE
             /\ analyzeBtnDisabled' = FALSE
             /\ runs' = [runs EXCEPT ![r] = NoRun]

\* The 10 ms timer of the loop fires: file.arrayBuffer() is called.
BatchTick ==
    \E r \in 1..MaxRuns :
        /\ runs[r].pc = "tick"
        /\ runs' = [runs EXCEPT ![r].pc = "read"]
        /\ UNCHANGED <<audioFiles, filesChosen, isProcessing, analyzeBtnDisabled, hasWorker, workerInbox, workerOutbox, onmessage, resultsContainer, shownFor, lastAlert, otherThanBatch>>

\* file.arrayBuffer() settles: decodeAudioData is called, or the catch
\* block pushes the error entry.
BatchArrayBuffer ==
    \E r \in 1..MaxRuns :
        /\ runs[r].pc = "read"
        /\ \/ /\ runs' = [runs EXCEPT ![r].pc = "decode"]
              /\ UNCHANGED <<isProcessing, analyzeBtnDisabled, resultsContainer, shownFor, lastAlert>>
           \/ \E shown \in 0..(Len(runs[r].allResults) + 1) :
                  LoopTail(r, BatchEntry(runs[r].file, TRUE), shown)
        /\ UNCHANGED <<audioFiles, filesChosen, hasWorker, workerInbox, workerOutbox, onmessage, otherThanBatch>>

\* decodeAudioData settles: performOptimizedAnalysis runs up to its first
\* 5 ms timer, or the catch block pushes the error entry.
BatchDecode ==
    \E r \in 1..MaxRuns :
        /\ runs[r].pc = "decode"
        /\ \/ /\ runs' = [runs EXCEPT ![r].pc = "bpmTick"]
              /\ UNCHANGED <<isProcessing, analyzeBtnDisabled, resultsContainer, shownFor, lastAlert>>
           \/ \E shown \in 0..(Len(runs[r].allResults) + 1) :
                  LoopTail(r, BatchEntry(runs[r].file, TRUE), shown)
        /\ UNCHANGED <<audioFiles, filesChosen, hasWorker, workerInbox, workerOutbox, onmessage, otherThanBatch>>

\* A wrapper with a worker: analysisWorker.onmessage = handler of the new
\* promise; analysisWorker.postMessage({type, audioData, sampleRate})
PostToWorker(r, type) ==
    /\ onmessage' = [type |-> type, run |-> r]
    /\ workerInbox' = Append(workerInbox, type)
    /\ runs' = [runs EXCEPT ![r].pc = type]

\* The first 5 ms timer fires: analyzeBPMFast, by the worker or on the
\* main thread up to the second timer.
BatchBpm ==
    \E r \in 1..MaxRuns :
        /\ runs[r].pc = "bpmTick"
        /\ IF hasWorker
           THEN PostToWorker(r, "bpm")
           ELSE /\ runs' = [runs EXCEPT ![r].pc = "danceabilityTick"]
                /\ UNCHANGED <<workerInbox, onmessage>>
        /\ UNCHANGED <<audioFiles, filesChosen, isProcessing, analyzeBtnDisabled, hasWorker, workerOutbox, resultsContainer, shownFor, lastAlert, otherThanBatch>>

\* The second timer fires: analyzeDanceabilityFast.
BatchDanceability ==
    \E r \in 1..MaxRuns :
        /\ runs[r].pc = "danceabilityTick"
        /\ IF hasWorker
           THEN PostToWorker(r, "danceability")
           ELSE /\ runs' = [runs EXCEPT ![r].pc = "moodTick"]
                /\ UNCHANGED <<workerInbox, onmessage>>
        /\ UNCHANGED <<audioFiles, filesChosen, isProcessing, analyzeBtnDisabled, hasWorker, workerOutbox, resultsContainer, shownFor, lastAlert, otherThanBatch>>

\* The third timer fires with a worker: analyzeMoodFast posts its request.
BatchMoodWorker ==
    \E r \in 1..MaxRuns :
        /\ runs[r].pc = "moodTick"
        /\ hasWorker
        /\ PostToWorker(r, "mood")
        /\ UNCHANGED <<audioFiles, filesChosen, isProcessing, analyzeBtnDisabled, hasWorker, workerOutbox, resultsContainer, shownFor, lastAlert, otherThanBatch>>

\* The third timer fires without a worker: analyzeMoodFast on the main
\* thread, the results are pushed and the pass ends.
BatchMoodMain ==
    \E r \in 1..MaxRuns :
        /\ runs[r].pc = "moodTick"
        /\ ~hasWorker
        /\ \E shown \in 0..(Len(runs[r].allResults) + 1) :
               LoopTail(r, BatchEntry(runs[r].file, FALSE), shown)
        /\ UNCHANGED <<audioFiles, filesChosen, hasWorker, workerInbox, workerOutbox, onmessage, otherThanBatch>>

\* self.onmessage of the worker: the analysis of the oldest request and
\* self.postMessage({type, result})
WorkerOnMessage ==
    /\ workerInbox # <<>>
    /\ workerOutbox' = Append(workerOutbox, Head(workerInbox))
    /\ workerInbox' = Tail(workerInbox)
    /\ UNCHANGED <<audioFiles, filesChosen, isProcessing, analyzeBtnDisabled, hasWorker, runs, onmessage, resultsContainer, shownFor, lastAlert, otherThanBatch>>

\* The handler installed on analysisWorker receives the oldest reply.  It
\* resolves its promise when the type is its own; the run that awaits the
\* promise goes on to its next timer, or, after the mood, ends the pass.
BatchWorkerReply ==
    /\ workerOutbox # <<>>
    /\ workerOutbox' = Tail(workerOutbox)
    /\ IF /\ onmessage.type = Head(workerOutbox)
          /\ runs[onmessage.run].pc = onmessage.type
       THEN IF onmessage.type = "mood"
            THEN \E shown \in 0..(Len(runs[onmessage.run].allResults) + 1) :
                     LoopTail(onmessage.run, BatchEntry(runs[onmessage.run].file, FALSE), shown)
            ELSE /\ runs' = [runs EXCEPT ![onmessage.run].pc =
                                 IF onmessage.type = "bpm" THEN "danceabilityTick" ELSE "moodTick"]
                 /\ UNCHANGED <<isProcessing, analyzeBtnDisabled, resultsContainer, shownFor, lastAlert>>
       ELSE UNCHANGED <<runs, isProcessing, analyzeBtnDisabled, resultsContainer, shownFor, lastAlert>>
    /\ UNCHANGED <<audioFiles, filesChosen, hasWorker, workerInbox, onmessage, otherThanBatch>>

BatchNext ==
    \/ BatchHandleAudioFiles
    \/ BatchRemoveFile
    \/ BatchClickRefused
    \/ BatchAnalyzeAllAudio
    \/ BatchTick
    \/ BatchArrayBuffer
    \/ BatchDecode
    \/ BatchBpm
    \/ BatchDanceability
    \/ BatchMoodWorker
    \/ BatchMoodMain
    \/ WorkerOnMessage
    \/ BatchWorkerReply

InitBatch ==
    /\ SrvIdle
    /\ PipeIdle
    /\ TempoIdle
    /\ CombineIdle
    /\ DanceIdle
    /\ MoodIdle
    /\ SingleIdle
    /\ EstIdle
    /\ FastIdle
    /\ PeaksIdle
    /\ FramingIdle
    /\ FeatIdle
    /\ DownIdle
    /\ BatchInit

SpecBatch == InitBatch /\ [][BatchNext]_vars

(* The entries a run displays *)

\* The files of the displayed entries that were selected when the run began,
\* in the order of the entries.
DisplayedOfSelection ==
    LET Selected(entry) == \E k \in DOMAIN shownFor.selection : shownFor.selection[k] = entry.fileName
        shown == SelectSeq(resultsContainer, Selected)
    IN  [k \in DOMAIN shown |-> shown[k].fileName]

\* C29: when a run of analyzeAllAudio has displayed its results, every file
\* that was selected when the run began has exactly one displayed entry, and
\* these entries are in the order of that selection, whatever removeFile and
\* handleAudioFiles did while the run was suspended.
EveryStartingFileHasOneEntryInOrder ==
    shownFor.rendered => DisplayedOfSelection = shownFor.selection

(* Re-entrancy of analyzeAllAudio *)

\* The calls of analyzeAllAudio between their guard and their finally block.
ActiveRuns == {r \in 1..MaxRuns : runs[r].pc # "none"}

\* Requests posted to the worker whose reply the page has not received.
OutstandingRequests == Len(workerInbox) + Len(workerOutbox)

\* C30: isProcessing is true exactly while a run of analyzeAllAudio is
\* active, whatever clicks arrive; at most one run is active and at most one
\* worker request is outstanding; after a run has ended, with or without an
\* exception, isProcessing is false.
AnalyzeAllAudioIsNotReentrant ==
    /\ isProcessing <=> ActiveRuns # {}
    /\ Cardinality(ActiveRuns) <= 1
    /\ OutstandingRequests <= 1

\* A click was turned away while a run waits for the worker, the button
\* having been enabled again by a change of the selection.
ClickRefusedWhileWorkerBusy ==
    /\ lastAlert = "Analysis is already in progress. Please wait..."
    /\ isProcessing
    /\ ~analyzeBtnDisabled
    /\ OutstandingRequests = 1
    /\ Cardinality(ActiveRuns) = 1

====
